---- MODULE Spec2Model ----
(***************************************************************************)
(* cheap-settings: the settings metaclass (cheap_settings.py) and the      *)
(* command-line surface (command_line.py).                                  *)
(*                                                                         *)
(* Python strings are sequences of one-character strings, so that          *)
(* upper(), lower(), replace(), `in` (substring) and the textual parsers   *)
(* are computed and not assumed.  Python values are tagged tuples          *)
(* <<tag, ...>>; a call's outcome is <<"ok", value>> or                    *)
(* <<"raise", exception, message>>.                                        *)
(***************************************************************************)
EXTENDS Integers, Sequences, FiniteSets, TLC

VARIABLES
    cfg,       \* cfg[c], for each settings class created so far: the attributes and the
               \* __annotations__ of its __config_instance, and what is left in its class dict
    env,       \* os.environ: variable name -> text
    cli,       \* cli[c]: the class's command-line config instance (the override store), once created
    views,     \* the classes produced by to_static() / from_env(), in creation order
    result     \* the last operation and what it returned or raised

vars == <<cfg, env, cli, views, result>>

----------------------------------------------------------------------------
(* Text *)

UpperChars == <<"A","B","C","D","E","F","G","H","I","J","K","L","M",
                "N","O","P","Q","R","S","T","U","V","W","X","Y","Z">>
LowerChars == <<"a","b","c","d","e","f","g","h","i","j","k","l","m",
                "n","o","p","q","r","s","t","u","v","w","x","y","z">>
DigitChars == <<"0","1","2","3","4","5","6","7","8","9">>

IndexIn(c, chars) == IF \E i \in DOMAIN chars : chars[i] = c
                     THEN CHOOSE i \in DOMAIN chars : chars[i] = c
                     ELSE 0

\* str.lower() / str.upper() on one character
CharLower(c) == IF IndexIn(c, UpperChars) > 0 THEN LowerChars[IndexIn(c, UpperChars)] ELSE c
CharUpper(c) == IF IndexIn(c, LowerChars) > 0 THEN UpperChars[IndexIn(c, LowerChars)] ELSE c

StrLower(s) == [i \in DOMAIN s |-> CharLower(s[i])]
StrUpper(s) == [i \in DOMAIN s |-> CharUpper(s[i])]

\* s.replace(a, b) for one-character a and b
StrReplaceChar(s, a, b) == [i \in DOMAIN s |-> IF s[i] = a THEN b ELSE s[i]]

\* s.startswith(p), s.endswith(p)
StartsWith(s, p) == Len(p) <= Len(s) /\ SubSeq(s, 1, Len(p)) = p
EndsWith(s, p) == Len(p) <= Len(s) /\ SubSeq(s, Len(s) - Len(p) + 1, Len(s)) = p

\* needle in hay, for two strings
StrContains(hay, needle) ==
    \E i \in 1..(Len(hay) - Len(needle) + 1) : SubSeq(hay, i, i + Len(needle) - 1) = needle

\* " ".join(tokens)
RECURSIVE JoinSpace(_)
JoinSpace(tokens) ==
    IF Len(tokens) = 0 THEN <<>>
    ELSE IF Len(tokens) = 1 THEN tokens[1]
    ELSE tokens[1] \o <<" ">> \o JoinSpace(Tail(tokens))

\* s.strip() of blanks
RECURSIVE LStrip(_)
LStrip(s) == IF Len(s) > 0 /\ s[1] = " " THEN LStrip(Tail(s)) ELSE s
RECURSIVE RStrip(_)
RStrip(s) == IF Len(s) > 0 /\ s[Len(s)] = " " THEN RStrip(SubSeq(s, 1, Len(s) - 1)) ELSE s
StrStrip(s) == RStrip(LStrip(s))

IsDigit(c) == IndexIn(c, DigitChars) > 0
DigitVal(c) == IndexIn(c, DigitChars) - 1

----------------------------------------------------------------------------
(* Values and outcomes *)

VInt(n)   == <<"int", n>>
VBool(b)  == <<"bool", b>>
VStr(s)   == <<"str", s>>
VNone     == <<"NoneType">>
\* a finite float mant * 10^-scale (normalised: mant not divisible by 10 unless scale = 0)
VFloat(mant, scale) == <<"float", "finite", mant, scale>>
VFloatSpecial(kind) == <<"float", kind, 0, 0>>
VList(items) == <<"list", items>>
VDict(pairs) == <<"dict", pairs>>
\* an instance of a class constructed from text, e.g. Path("/etc")
VObj(class, s) == <<"object", class, s>>
\* a function, classmethod or staticmethod written in a class body
VMethod(name) == <<"method", name>>

TagOf(v) == v[1]

Ok(v) == <<"ok", v>>
Raise(exc, msg) == <<"raise", exc, msg>>
IsOk(r) == r[1] = "ok"
IsRaise(r) == r[1] = "raise"
ValueOf(r) == r[2]
ExcOf(r) == r[2]

\* Types: <<"int">>, <<"Union", <<member, ...>>>>, <<"generic", origin, <<arg, ...>>>>, <<"class", name>>
TInt   == <<"int">>
TFloat == <<"float">>
TBool  == <<"bool">>
TStr   == <<"str">>
TList  == <<"list">>
TDict  == <<"dict">>
TNone  == <<"NoneType">>
TUnion(members) == <<"Union", members>>
TOptional(t) == TUnion(<<t, TNone>>)
TGeneric(origin, args) == <<"generic", origin, args>>
TClass(name) == <<"class", name>>

\* typing.get_origin(to_type), as a tag ("" for None)
GetOrigin(t) == IF t[1] = "Union" THEN "Union" ELSE IF t[1] = "generic" THEN t[2] ELSE ""
\* typing.get_args(to_type)
GetArgs(t) == IF t[1] = "Union" THEN t[2] ELSE IF t[1] = "generic" THEN t[3] ELSE <<>>

----------------------------------------------------------------------------
(* The host's textual parsers: int(), float(), json.loads() *)

\* a run of digits with single underscores between digits, as int() and float() accept it
IsDigitRun(s) ==
    /\ Len(s) > 0
    /\ IsDigit(s[1]) /\ IsDigit(s[Len(s)])
    /\ \A i \in DOMAIN s : IsDigit(s[i]) \/ s[i] = "_"
    /\ \A i \in 1..(Len(s) - 1) : ~(s[i] = "_" /\ s[i + 1] = "_")

RECURSIVE DigitRunValue(_)
DigitRunValue(s) ==
    IF Len(s) = 0 THEN 0
    ELSE IF s[Len(s)] = "_" THEN DigitRunValue(SubSeq(s, 1, Len(s) - 1))
    ELSE DigitRunValue(SubSeq(s, 1, Len(s) - 1)) * 10 + DigitVal(s[Len(s)])

\* the number of digits of a digit run
DigitCount(s) == Cardinality({i \in DOMAIN s : IsDigit(s[i])})

\* the number of digits a text starts with
RECURSIVE LeadingDigits(_)
LeadingDigits(s) == IF Len(s) > 0 /\ IsDigit(s[1]) THEN 1 + LeadingDigits(Tail(s)) ELSE 0

SignOf(s) == IF Len(s) > 0 /\ s[1] = "-" THEN -1 ELSE 1
Unsigned(s) == IF Len(s) > 0 /\ s[1] \in {"+", "-"} THEN Tail(s) ELSE s

\* int(value), t being value.strip()
PyIntStripped(t, value) ==
    IF IsDigitRun(Unsigned(t)) THEN Ok(VInt(SignOf(t) * DigitRunValue(Unsigned(t))))
    ELSE Raise("ValueError", <<"invalid literal for int() with base 10", value>>)

\* int(value)
PyInt(value) == PyIntStripped(StrStrip(value), value)

RECURSIVE Pow10(_)
Pow10(n) == IF n <= 0 THEN 1 ELSE 10 * Pow10(n - 1)

\* the float mant * 10^-scale, with the trailing zeros of its fraction dropped
RECURSIVE NormFloat(_, _)
NormFloat(mant, scale) ==
    IF scale < 0 THEN NormFloat(mant * Pow10(-scale), 0)
    ELSE IF scale > 0 /\ mant % 10 = 0 THEN NormFloat(mant \div 10, scale - 1)
    ELSE VFloat(mant, scale)

\* the first position of s that holds one of chars, or 0
FirstIndex(s, chars) == IF \E i \in DOMAIN s : s[i] \in chars
                        THEN CHOOSE i \in DOMAIN s : s[i] \in chars /\ \A j \in 1..(i - 1) : s[j] \notin chars
                        ELSE 0

\* s cut at position i: <<before, after, whether there was a cut>>
SplitAt(s, i) == IF i = 0 THEN <<s, <<>>, FALSE>> ELSE <<SubSeq(s, 1, i - 1), SubSeq(s, i + 1, Len(s)), TRUE>>

\* float() on digits [. digits] [e [sign] digits]: m is the mantissa cut at ".", x the text cut at "e"
PyFloatDecimal(m, x, sign, value) ==
    IF /\ m[1] = <<>> \/ IsDigitRun(m[1])
       /\ m[2] = <<>> \/ IsDigitRun(m[2])
       /\ ~(m[1] = <<>> /\ m[2] = <<>>)
       /\ ~x[3] \/ IsDigitRun(Unsigned(x[2]))
    THEN Ok(NormFloat(sign * (DigitRunValue(m[1]) * Pow10(DigitCount(m[2])) + DigitRunValue(m[2])),
                      DigitCount(m[2]) - SignOf(x[2]) * DigitRunValue(Unsigned(x[2]))))
    ELSE Raise("ValueError", <<"could not convert string to float", value>>)

PyFloatExponent(x, sign, value) == PyFloatDecimal(SplitAt(x[1], FirstIndex(x[1], {"."})), x, sign, value)

\* float(value), body being the stripped text without its sign
PyFloatBody(body, sign, value) ==
    IF StrLower(body) \in {<<"i","n","f">>, <<"i","n","f","i","n","i","t","y">>}
    THEN Ok(VFloatSpecial(IF sign < 0 THEN "-inf" ELSE "inf"))
    ELSE IF StrLower(body) = <<"n","a","n">> THEN Ok(VFloatSpecial("nan"))
    ELSE PyFloatExponent(SplitAt(body, FirstIndex(body, {"e", "E"})), sign, value)

\* float(value)
PyFloat(value) == PyFloatBody(Unsigned(StrStrip(value)), SignOf(StrStrip(value)), value)

\* d[k] = v on a dict kept as its items in insertion order
DictSet(pairs, k, v) ==
    IF \E i \in DOMAIN pairs : pairs[i][1] = k
    THEN [i \in DOMAIN pairs |-> IF pairs[i][1] = k THEN <<k, v>> ELSE pairs[i]]
    ELSE Append(pairs, <<k, v>>)

\* The JSON decoder, by recursive descent.  Each parser takes the text that is left and
\* returns <<"ok", value, rest>> or <<"err">>.  Strings are taken without escapes and
\* numbers without exponents.
JsonErr == <<"err">>
JsonWord(s, word, v) == IF StartsWith(s, word) THEN <<"ok", v, SubSeq(s, Len(word) + 1, Len(s))>> ELSE JsonErr

\* s starts after the opening quote and the string closes at position close
JsonStringTo(s, close) ==
    IF close = 0 \/ \E i \in 1..(close - 1) : s[i] = "\\" THEN JsonErr
    ELSE <<"ok", VStr(SubSeq(s, 1, close - 1)), SubSeq(s, close + 1, Len(s))>>
JsonString(s) == JsonStringTo(s, FirstIndex(s, {"\""}))

\* a number of n integer digits after `off` sign characters, and m fraction digits
JsonNumberOf(s, off, n, m) ==
    IF m = 0
    THEN <<"ok", VInt((1 - 2 * off) * DigitRunValue(SubSeq(s, off + 1, off + n))), SubSeq(s, off + n + 1, Len(s))>>
    ELSE <<"ok", NormFloat((1 - 2 * off) * (DigitRunValue(SubSeq(s, off + 1, off + n)) * Pow10(m)
                                            + DigitRunValue(SubSeq(s, off + n + 2, off + n + 1 + m))), m),
           SubSeq(s, off + n + m + 2, Len(s))>>
JsonNumberInt(s, off, n) ==
    IF n = 0 \/ (n > 1 /\ s[off + 1] = "0") THEN JsonErr
    ELSE JsonNumberOf(s, off, n, IF Len(s) > off + n + 1 /\ s[off + n + 1] = "."
                                 THEN LeadingDigits(SubSeq(s, off + n + 2, Len(s))) ELSE 0)
JsonNumberAt(s, off) == JsonNumberInt(s, off, LeadingDigits(SubSeq(s, off + 1, Len(s))))
JsonNumber(s) == JsonNumberAt(s, IF s[1] = "-" THEN 1 ELSE 0)

RECURSIVE JsonValueAt(_), JsonArrayRest(_, _), JsonObjectRest(_, _)
JsonValue(text) == JsonValueAt(LStrip(text))

\* after "[" or ",": one item, then "," or "]"
JsonArrayNext(after, items) ==
    IF Len(after) = 0 THEN JsonErr
    ELSE IF after[1] = "]" THEN <<"ok", VList(items), Tail(after)>>
    ELSE IF after[1] = "," THEN JsonArrayRest(Tail(after), items)
    ELSE JsonErr
JsonArrayItem(item, items) ==
    IF item[1] # "ok" THEN JsonErr ELSE JsonArrayNext(LStrip(item[3]), Append(items, item[2]))
JsonArrayRest(text, items) == JsonArrayItem(JsonValue(text), items)
JsonArrayOpen(rest) ==
    IF Len(rest) > 0 /\ rest[1] = "]" THEN <<"ok", VList(<<>>), Tail(rest)>> ELSE JsonArrayRest(rest, <<>>)

\* after "{" or ",": "key" : value, then "," or "}"
JsonObjectNext(after, pairs) ==
    IF Len(after) = 0 THEN JsonErr
    ELSE IF after[1] = "}" THEN <<"ok", VDict(pairs), Tail(after)>>
    ELSE IF after[1] = "," THEN JsonObjectRest(Tail(after), pairs)
    ELSE JsonErr
JsonObjectItem(k, val, pairs) ==
    IF val[1] # "ok" THEN JsonErr ELSE JsonObjectNext(LStrip(val[3]), DictSet(pairs, k, val[2]))
JsonObjectColon(k, s, pairs) ==
    IF Len(s) > 0 /\ s[1] = ":" THEN JsonObjectItem(k, JsonValue(Tail(s)), pairs) ELSE JsonErr
JsonObjectKey(key, pairs) ==
    IF key[1] # "ok" THEN JsonErr ELSE JsonObjectColon(key[2][2], LStrip(key[3]), pairs)
JsonObjectStart(s, pairs) ==
    IF Len(s) > 0 /\ s[1] = "\"" THEN JsonObjectKey(JsonString(Tail(s)), pairs) ELSE JsonErr
JsonObjectRest(text, pairs) == JsonObjectStart(LStrip(text), pairs)
JsonObjectOpen(rest) ==
    IF Len(rest) > 0 /\ rest[1] = "}" THEN <<"ok", VDict(<<>>), Tail(rest)>> ELSE JsonObjectRest(rest, <<>>)

JsonValueAt(s) ==
    IF Len(s) = 0 THEN JsonErr
    ELSE IF s[1] = "[" THEN JsonArrayOpen(LStrip(Tail(s)))
    ELSE IF s[1] = "{" THEN JsonObjectOpen(LStrip(Tail(s)))
    ELSE IF s[1] = "\"" THEN JsonString(Tail(s))
    ELSE IF s[1] = "-" \/ IsDigit(s[1]) THEN JsonNumber(s)
    ELSE IF s[1] = "t" THEN JsonWord(s, <<"t","r","u","e">>, VBool(TRUE))
    ELSE IF s[1] = "f" THEN JsonWord(s, <<"f","a","l","s","e">>, VBool(FALSE))
    ELSE IF s[1] = "n" THEN JsonWord(s, <<"n","u","l","l">>, VNone)
    ELSE JsonErr

\* json.loads(value)
JsonLoadsResult(r, value) ==
    IF r[1] = "ok" /\ LStrip(r[3]) = <<>> THEN Ok(r[2])
    ELSE Raise("JSONDecodeError", <<"Expecting value", value>>)
JsonLoads(value) == JsonLoadsResult(JsonValue(value), value)

----------------------------------------------------------------------------
(* cheap_settings.py: the coercion engine *)

\* isinstance(exception, handler class): json.JSONDecodeError is a ValueError
ExcIsA(exc, class) == exc = class \/ (exc = "JSONDecodeError" /\ class = "ValueError")

TrueWords  == {<<"t","r","u","e">>, <<"1">>, <<"y","e","s">>, <<"o","n">>}
FalseWords == {<<"f","a","l","s","e">>, <<"0">>, <<"n","o">>, <<"o","f","f">>}
\* the JSON spelling of null, which is not the sentinel
NullWord   == <<"n","u","l","l">>
NoneWord   == <<"n","o","n","e">>

\* the bool branch without value.lower(): the words are matched as they are written
ConvertBoolExact(text) ==
    IF text \in TrueWords THEN Ok(VBool(TRUE))
    ELSE IF text \in FalseWords THEN Ok(VBool(FALSE))
    ELSE Raise("ValueError", <<"is not a valid boolean value", text>>)

\* the bool branch of _convert_value_to_type
ConvertBool(text) ==
    IF StrLower(text) \in TrueWords THEN Ok(VBool(TRUE))
    ELSE IF StrLower(text) \in FalseWords THEN Ok(VBool(FALSE))
    ELSE Raise("ValueError", <<"is not a valid boolean value", text>>)

\* the isinstance(parsed_value, list / dict) check on what json.loads returned
CheckJsonKind(parsed, text, kind) ==
    IF IsRaise(parsed) THEN parsed
    ELSE IF TagOf(ValueOf(parsed)) # kind
    THEN Raise("ValueError", <<IF kind = "list" THEN "is not a list" ELSE "is not a dict", text>>)
    ELSE parsed
ConvertJson(text, kind) == CheckJsonKind(JsonLoads(text), text, kind)

\* the container a type is parsed as: list[...] and list are JSON lists, dict[...] and
\* dict are JSON dicts, every other type is none ("")
JsonKind(to_type) ==
    IF GetOrigin(to_type) = "list" \/ (GetOrigin(to_type) = "" /\ to_type = TList) THEN "list"
    ELSE IF GetOrigin(to_type) = "dict" \/ (GetOrigin(to_type) = "" /\ to_type = TDict) THEN "dict"
    ELSE ""

RECURSIVE ConvertValueToType(_, _), TryUnionArgs(_, _, _)
\* `except ValueError` matched by the class's name alone: an error of another class,
\* json.JSONDecodeError too, leaves the loop
TryUnionNextExact(r, value, args, allArgs) ==
    IF IsRaise(r) /\ ExcOf(r) = "ValueError"
    THEN TryUnionArgs(value, Tail(args), allArgs)
    ELSE r

\* `except (ValueError, TypeError, json.JSONDecodeError): continue`, else the member's result
TryUnionNext(r, value, args, allArgs) ==
    IF IsRaise(r) /\ (\E h \in {"ValueError", "TypeError", "JSONDecodeError"} : ExcIsA(ExcOf(r), h))
    THEN TryUnionArgs(value, Tail(args), allArgs)
    ELSE r

\* `for arg in args`: the members of a union left to try, in declared order, None skipped
TryUnionArgs(value, args, allArgs) ==
    IF Len(args) = 0
    THEN Raise("ValueError", <<"Could not convert to any of", value[2], allArgs>>)
    ELSE IF args[1] = TNone THEN TryUnionArgs(value, Tail(args), allArgs)
    ELSE TryUnionNext(ConvertValueToType(value, args[1]), value, args, allArgs)

\* _convert_value_to_type ending with `return to_type(value)`: a type it does not know
\* is called on the text
ConvertValueConstructed(value, to_type) ==
    IF to_type[1] = "class" THEN Ok(VObj(to_type[2], value[2])) ELSE Ok(value)

\* _convert_value_to_type with lines 31-36 replaced by a type check of the value
ConvertValueChecked(value, to_type) ==
    IF TagOf(value) = to_type[1] THEN Ok(value)
    ELSE Raise("TypeError", <<"is not of the target type", value>>)

\* _convert_value_to_type without its conversions: the text is handed back as it is
ConvertValueUntyped(value, to_type) == Ok(value)

\* _convert_value_to_type(value, to_type)
ConvertValueToType(value, to_type) ==
    IF value = VNone THEN Ok(VNone)
    ELSE IF TagOf(value) # "str" THEN Ok(value)
    ELSE IF GetOrigin(to_type) = "Union" THEN
        (IF (\E i \in DOMAIN GetArgs(to_type) : GetArgs(to_type)[i] = TNone) /\ StrLower(value[2]) = NoneWord
         THEN Ok(VNone)
         ELSE TryUnionArgs(value, GetArgs(to_type), GetArgs(to_type)))
    ELSE IF GetOrigin(to_type) \in {"list", "dict"} THEN ConvertJson(value[2], JsonKind(to_type))
    ELSE IF to_type = TBool THEN ConvertBool(value[2])
    ELSE IF to_type = TInt THEN PyInt(value[2])
    ELSE IF to_type = TFloat THEN PyFloat(value[2])
    ELSE IF to_type = TStr THEN Ok(value)
    ELSE IF to_type \in {TList, TDict} THEN ConvertJson(value[2], JsonKind(to_type))
    ELSE Ok(value)

----------------------------------------------------------------------------
(* cheap_settings.py: the metaclass *)

\* a mapping with no keys; Update(a, b) is a.update(b)
EmptyMap == [k \in {} |-> k]
Update(a, b) == b @@ a
Restrict(f, keys) == [k \in (DOMAIN f) \cap keys |-> f[k]]

Dunder == <<"_", "_">>

\* The class hierarchy of the model: each class's bases, in declaration order.
\* "object" has no __config_instance.
ClassBases == [ object        |-> <<>>,
                CheapSettings |-> <<"object">>,
                Base          |-> <<"CheapSettings">>,
                Child         |-> <<"Base">>,
                Grand         |-> <<"Child">>,
                Left          |-> <<"Base">>,
                Right         |-> <<"Base">>,
                Diamond       |-> <<"Left", "Right">>,
                Mirror        |-> <<"Right", "Left">> ]

SeqRange(s) == {s[i] : i \in DOMAIN s}
SeqReverse(s) == [i \in DOMAIN s |-> s[Len(s) + 1 - i]]
SeqRemove(s, x) == SelectSeq(s, LAMBDA y : y # x)

\* The C3 merge of the bases' linearisations, which gives cls.__mro__
C3Good(live, i) == \A j \in DOMAIN live : live[i][1] \notin SeqRange(Tail(live[j]))
RECURSIVE C3Merge(_)
C3Take(live, head) == <<head>> \o C3Merge([j \in DOMAIN live |-> SeqRemove(live[j], head)])
C3Pick(live) ==
    IF Len(live) = 0 \/ ~ \E i \in DOMAIN live : C3Good(live, i) THEN <<>>
    ELSE C3Take(live, live[CHOOSE i \in DOMAIN live : C3Good(live, i) /\ \A j \in 1..(i - 1) : ~C3Good(live, j)][1])
C3Merge(seqs) == C3Pick(SelectSeq(seqs, LAMBDA q : Len(q) > 0))

RECURSIVE Mro(_)
Mro(c) == <<c>> \o C3Merge([i \in DOMAIN ClassBases[c] |-> Mro(ClassBases[c][i])] \o <<ClassBases[c]>>)

\* cls.__mro__, which the host computes once, when the class is created
MroOf == [c \in DOMAIN ClassBases |-> Mro(c)]

\* hasattr(klass, "__config_instance")
HasConfig(klass) == klass \in DOMAIN cfg

\* One step of `for base in reversed(bases)` in __new__: the parent's annotations are
\* merged in and every parent attribute not starting with "__" is copied.
MergeParent(acc, parent) ==
    [ ann   |-> Update(acc.ann, parent.ann),
      attrs |-> Update(acc.attrs, Restrict(parent.attrs, {a \in DOMAIN parent.attrs : ~StartsWith(a, Dunder)})) ]

\* `for base in reversed(bases)`, configs being the config instances of the classes that
\* exist when the class is created
RECURSIVE CollectParents(_, _, _)
CollectParents(configs, bases, acc) ==
    IF Len(bases) = 0 THEN acc
    ELSE IF bases[1] \notin DOMAIN configs THEN CollectParents(configs, Tail(bases), acc)
    ELSE CollectParents(configs, Tail(bases), MergeParent(acc, configs[bases[1]]))

\* the names of the class body that __new__ moves to the config instance
MovedKeys(body) == {k \in DOMAIN body : ~StartsWith(k, Dunder) /\ ~EndsWith(k, Dunder)}

\* __new__ replacing a setting as a whole: what the class declares anew, by a value or
\* by an annotation, loses both the inherited value and the inherited annotation
OwnReplacesInherited(inherited, dct) ==
    [ ann   |-> Update(Restrict(inherited.ann,
                                (DOMAIN inherited.ann) \ ((DOMAIN dct.ann) \cup MovedKeys(dct.body))),
                       dct.ann),
      attrs |-> Update(Restrict(inherited.attrs,
                                (DOMAIN inherited.attrs) \ ((DOMAIN dct.ann) \cup MovedKeys(dct.body))),
                       Restrict(dct.body, MovedKeys(dct.body))),
      dict  |-> Restrict(dct.body, (DOMAIN dct.body) \ MovedKeys(dct.body)) ]

\* __new__ with the merge turned round: an inherited attribute wins over the class's own
InheritedOverOwn(inherited, dct) ==
    [ ann   |-> Update(dct.ann, inherited.ann),
      attrs |-> Update(Restrict(dct.body, MovedKeys(dct.body)), inherited.attrs),
      dict  |-> Restrict(dct.body, (DOMAIN dct.body) \ MovedKeys(dct.body)) ]

\* The end of __new__: the class's own annotations and attributes go over the inherited
\* ones; what is not moved stays in the class dict.
OwnOverInherited(inherited, dct) ==
    [ ann   |-> Update(inherited.ann, dct.ann),
      attrs |-> Update(inherited.attrs, Restrict(dct.body, MovedKeys(dct.body))),
      dict  |-> Restrict(dct.body, (DOMAIN dct.body) \ MovedKeys(dct.body)) ]

\* MetaCheapSettings.__new__(mcs, name, bases, dct): the class's config instance.
\* dct.ann is the body's __annotations__, dct.body its other names.
NewConfig(configs, bases, dct) ==
    OwnOverInherited(CollectParents(configs, SeqReverse(bases), [ann |-> EmptyMap, attrs |-> EmptyMap]), dct)

\* the classes of the MRO whose class dict holds the attribute
DictHolders(c, attribute) ==
    SelectSeq(MroOf[c], LAMBDA k : HasConfig(k) /\ attribute \in DOMAIN cfg[k].dict)

\* type.__getattribute__(cls, attribute) for a name of a class body
TypeGetAttributeFrom(holders, attribute) ==
    IF Len(holders) > 0 THEN Ok(cfg[holders[1]].dict[attribute])
    ELSE Raise("AttributeError", <<"type object has no attribute", attribute>>)
TypeGetAttribute(c, attribute) == TypeGetAttributeFrom(DictHolders(c, attribute), attribute)

\* os.environ.get(attribute.upper()) is not None
EnvName(attribute) == StrUpper(attribute)
\* `if env_attr:` in place of `if env_attr is not None`: an empty text counts as not set
EnvIsNonEmpty(attribute) == StrUpper(attribute) \in DOMAIN env /\ env[StrUpper(attribute)] # <<>>
EnvIsSet(attribute) == EnvName(attribute) \in DOMAIN env

\* Lines 195-209: the config instance that has the attribute answers
ResolveIn(config_instance, attribute) ==
    IF EnvIsSet(attribute)
    THEN IF attribute \in DOMAIN config_instance.ann
         THEN ConvertValueToType(VStr(env[EnvName(attribute)]), config_instance.ann[attribute])
         ELSE Ok(VStr(env[EnvName(attribute)]))
    ELSE Ok(config_instance.attrs[attribute])

\* the attributes __getattribute__ hands to type.__getattribute__ at once (line 181)
SpecialAttributes == { <<"_","_","c","o","n","f","i","g","_","i","n","s","t","a","n","c","e">>,
                       <<"_","_","m","r","o","_","_">>,
                       <<"_","_","c","l","a","s","s","_","_">>,
                       <<"_","_","d","i","c","t","_","_">> }

\* `for klass in cls.__mro__`: the classes whose config instance has the attribute
ConfigHolders(c, attribute) ==
    SelectSeq(MroOf[c], LAMBDA k : HasConfig(k) /\ attribute \in DOMAIN cfg[k].attrs)

\* the first class of the MRO that has the attribute answers, else type.__getattribute__
ResolveFrom(holders, c, attribute) ==
    IF Len(holders) > 0 THEN ResolveIn(cfg[holders[1]], attribute)
    ELSE TypeGetAttribute(c, attribute)

\* MetaCheapSettings.__getattribute__(cls, attribute)
Resolve(c, attribute) ==
    IF attribute \in SpecialAttributes THEN Ok(VObj("builtin", attribute))
    ELSE ResolveFrom(ConfigHolders(c, attribute), c, attribute)

\* MetaCheapSettings.__setattr__(cls, attribute, value), for a name other than __config_instance
SetAttrConfig(config_instance, attribute, value) ==
    [config_instance EXCEPT !.attrs = Update(@, (attribute :> value))]

----------------------------------------------------------------------------
(* command_line.py *)

\* _convert_to_argument_name(name)
ConvertToArgumentName(name) == StrReplaceChar(StrLower(name), "_", "-")

\* _bool_str_to_bool normalizing with value.strip().lower(): blanks around the word are dropped
BoolStrToBoolStripped(value) ==
    IF StrLower(StrStrip(value)) \in {<<"t","r","u","e">>, <<"1">>, <<"y","e","s">>, <<"o","n">>} THEN Ok(VBool(TRUE))
    ELSE IF StrLower(StrStrip(value)) \in {<<"f","a","l","s","e">>, <<"0">>, <<"n","o">>, <<"o","f","f">>}
    THEN Ok(VBool(FALSE))
    ELSE Raise("ValueError", <<"is not a valid boolean value", value>>)

\* _bool_str_to_bool(value)
BoolStrToBool(value) ==
    IF StrLower(value) \in {<<"t","r","u","e">>, <<"1">>, <<"y","e","s">>, <<"o","n">>} THEN Ok(VBool(TRUE))
    ELSE IF StrLower(value) \in {<<"f","a","l","s","e">>, <<"0">>, <<"n","o">>, <<"o","f","f">>} THEN Ok(VBool(FALSE))
    ELSE Raise("ValueError", <<"is not a valid boolean value", value>>)

\* type(value), as a type
TypeOfValue(v) ==
    IF TagOf(v) = "object" THEN TClass(v[2])
    ELSE IF TagOf(v) = "method" THEN TClass("function")
    ELSE <<TagOf(v)>>

ReservedArgs == {<<"h","e","l","p">>, <<"h">>}
DashDash == <<"-", "-">>
NoPrefix == <<"n","o","-">>
TBoolParser == <<"function", "_bool_str_to_bool">>

\* for arg in args: if arg is not type(None): argument_type = arg; break
FirstNonNone(args, otherwise) ==
    IF \E i \in DOMAIN args : args[i] # TNone
    THEN args[CHOOSE i \in DOMAIN args : args[i] # TNone /\ \A j \in 1..(i - 1) : args[j] = TNone]
    ELSE otherwise

\* the names _get_arg_parser goes through: dir(config_instance) and the annotations,
\* without the names that start with "_"
ArgumentNames(config_instance) ==
    {n \in (DOMAIN config_instance.attrs) \cup (DOMAIN config_instance.ann) : ~StartsWith(n, <<"_">>)}

\* parser.add_argument("--" + flag, action=..., type=..., default=...) for the setting `name`
AddArgument(name, flag, action, type, default) ==
    [skip |-> FALSE, dest |-> name, flag |-> DashDash \o flag, action |-> action, type |-> type, default |-> default]

\* Lines 72-106: the argument of a setting, by its type and its default
ArgumentOfType(name, argument_name, argument_type, argument_default) ==
    IF argument_type = TBool THEN
        (IF argument_default = VNone THEN AddArgument(name, argument_name, "store", TBoolParser, argument_default)
         ELSE IF argument_default = VBool(FALSE)
         THEN AddArgument(name, argument_name, "store_true", TBool, argument_default)
         ELSE IF argument_default = VBool(TRUE)
         THEN AddArgument(name, NoPrefix \o argument_name, "store_false", TBool, argument_default)
         ELSE AddArgument(name, argument_name, "store", TBool, argument_default))
    ELSE IF argument_type \in {TDict, TList}
    THEN [skip |-> TRUE, dest |-> name, flag |-> <<>>, action |-> "store", type |-> argument_type,
          default |-> argument_default]
    ELSE AddArgument(name, argument_name, "store", argument_type, argument_default)

\* _get_arg_parser without lines 63-70: the declared type is the argument's type as it is
KeepDeclared(declared) == declared

\* Lines 63-70: a generic type gives way to the first of its arguments that is not None
UnwrapOptional(declared) ==
    IF GetOrigin(declared) # "" THEN FirstNonNone(GetArgs(declared), declared) ELSE declared

\* Lines 52-58: the annotation, else the type of the default
ArgumentWithDefault(config_instance, name, argument_default) ==
    ArgumentOfType(name, ConvertToArgumentName(name),
                   UnwrapOptional(IF name \in DOMAIN config_instance.ann
                                  THEN config_instance.ann[name] ELSE TypeOfValue(argument_default)),
                   argument_default)

\* The body of _get_arg_parser's loop for one name: the argument it adds, as
\* [dest, flag, action, type, default], or skip for the `continue` of lists and dicts
ArgumentFor(config_instance, name) ==
    ArgumentWithDefault(config_instance, name,
                        IF name \in DOMAIN config_instance.attrs THEN config_instance.attrs[name] ELSE VNone)

\* the --help option every ArgumentParser starts with
HelpFlag == <<"-","-","h","e","l","p">>
HelpOption == [skip |-> FALSE, dest |-> <<"h","e","l","p">>, flag |-> HelpFlag, action |-> "help",
               type |-> TStr, default |-> VNone]

\* the parser without the check of lines 45-50: a reserved name goes on to add_argument
ParserOfUnchecked(names, added) ==
    IF \E a, b \in added \cup {HelpOption} : a # b /\ a.flag = b.flag
    THEN Raise("ArgumentError", <<"conflicting option string", <<>>>>)
    ELSE Ok(added \cup {HelpOption})

\* the parser with its arguments added: add_argument refuses an option string that is taken
ParserOf(names, added) ==
    IF \E n \in names : StrLower(n) \in ReservedArgs
    THEN Raise("ValueError", <<"conflicts with argparse built-in options",
                               CHOOSE n \in names : StrLower(n) \in ReservedArgs>>)
    ELSE IF \E a, b \in added \cup {HelpOption} : a # b /\ a.flag = b.flag
    THEN Raise("ArgumentError", <<"conflicting option string", <<>>>>)
    ELSE Ok(added \cup {HelpOption})

\* what the loop of _get_arg_parser adds
KeptArguments(arguments) == {a \in arguments : ~a.skip}

\* _get_arg_parser(config_instance): the parser's options, or the error it raises
GetArgParser(config_instance) ==
    ParserOf(ArgumentNames(config_instance),
             KeptArguments({ArgumentFor(config_instance, n) : n \in ArgumentNames(config_instance)}))

\* argparse calls the argument's type on the text of its value; a ValueError or a
\* TypeError from it ends the parse
ApplyArgumentType(type, text) ==
    IF type = TInt THEN PyInt(text)
    ELSE IF type = TFloat THEN PyFloat(text)
    ELSE IF type = TStr THEN Ok(VStr(text))
    ELSE IF type = TBool THEN Ok(VBool(Len(text) > 0))
    ELSE IF type = TBoolParser THEN BoolStrToBool(text)
    ELSE IF type = TNone THEN Raise("TypeError", <<"NoneType takes no arguments", text>>)
    ELSE IF type = TClass("function") THEN Raise("TypeError", <<"function() argument", text>>)
    ELSE IF type[1] = "class" THEN Ok(VObj(type[2], text))
    ELSE IF type[1] = "generic" /\ type[2] = "list" THEN Ok(VList([i \in DOMAIN text |-> VStr(<<text[i]>>)]))
    ELSE Raise("ValueError", <<"invalid value", text>>)

\* digits or digits.digits, dot being the position of the first "."
IsNumberBody(body, dot) ==
    IF dot = 0 THEN \A i \in DOMAIN body : IsDigit(body[i])
    ELSE (\A i \in (DOMAIN body) \ {dot} : IsDigit(body[i])) /\ dot < Len(body)

\* the pattern argparse takes a negative number by: -digits or -digits.digits
LooksNegativeNumber(tok) ==
    Len(tok) > 1 /\ tok[1] = "-" /\ IsNumberBody(Tail(tok), FirstIndex(Tail(tok), {"."}))

FoundOption(o, hasValue, value) == [kind |-> "option", option |-> o, hasValue |-> hasValue, value |-> value]
NoOption(kind) == [kind |-> kind, option |-> HelpOption, hasValue |-> FALSE, value |-> <<>>]

\* An exact option string wins, then the exact string before "=", then an abbreviation,
\* which must be unambiguous.
MatchAmong(exact, exactEq, abbrev, hasEq, explicit) ==
    IF exact # {} THEN FoundOption(CHOOSE o \in exact : TRUE, FALSE, <<>>)
    ELSE IF exactEq # {} THEN FoundOption(CHOOSE o \in exactEq : TRUE, TRUE, explicit)
    ELSE IF Cardinality(abbrev) > 1 THEN NoOption("ambiguous")
    ELSE IF Cardinality(abbrev) = 1 THEN FoundOption(CHOOSE o \in abbrev : TRUE, hasEq, explicit)
    ELSE NoOption("unknown")

\* the token cut at its first "=": cut[1] the option string, cut[2] the explicit value
MatchOptionCut(options, tok, cut) ==
    MatchAmong({o \in options : o.flag = tok \/ (o.action = "help" /\ tok = <<"-", "h">>)},
               {o \in options : cut[3] /\ o.flag = cut[1]},
               {o \in options : StartsWith(tok, DashDash) /\ StartsWith(o.flag, cut[1])},
               cut[3], cut[2])

\* ArgumentParser._parse_optional for a token that starts with "-": the option it names
\* and the value given with "="
MatchOption(options, tok) == MatchOptionCut(options, tok, SplitAt(tok, FirstIndex(tok, {"="})))

\* a token argparse takes for a value ("A") and not for an option ("O"): it does not
\* start with "-", or it is a negative number, or it names no option and holds a blank
IsArgumentToken(options, tok) ==
    \/ Len(tok) = 0
    \/ tok[1] # "-"
    \/ tok = <<"-">>
    \/ /\ MatchOption(options, tok).kind = "unknown"
       /\ LooksNegativeNumber(tok) \/ \E i \in DOMAIN tok : tok[i] = " "

ParseError(msg, tok) == Raise("SystemExit", <<msg, tok>>)

RECURSIVE ConsumeTokens(_, _, _)
\* a "store" option has taken `text`; `converted` is its type applied to the text
StoreValue(options, rest, ns, dest, converted, text) ==
    IF IsRaise(converted) THEN ParseError("invalid value", text)
    ELSE ConsumeTokens(options, rest, Update(ns, (dest :> ValueOf(converted))))

\* a "store" option takes the value given with "=", else the next token if it is a value
ConsumeStore(options, tokens, ns, m, hasNext) ==
    IF m.hasValue
    THEN StoreValue(options, Tail(tokens), ns, m.option.dest, ApplyArgumentType(m.option.type, m.value), m.value)
    ELSE IF hasNext
    THEN StoreValue(options, Tail(Tail(tokens)), ns, m.option.dest,
                    ApplyArgumentType(m.option.type, tokens[2]), tokens[2])
    ELSE ParseError("expected one argument", tokens[1])

\* the first token is an option string and m is what it matches
ConsumeOption(options, tokens, ns, m) ==
    IF m.kind # "option" THEN ParseError("unrecognized or ambiguous option", tokens[1])
    ELSE IF m.option.action = "help" THEN ParseError("help", tokens[1])
    ELSE IF m.option.action \in {"store_true", "store_false"} THEN
        (IF m.hasValue THEN ParseError("ignored explicit argument", tokens[1])
         ELSE ConsumeTokens(options, Tail(tokens),
                            Update(ns, (m.option.dest :> VBool(m.option.action = "store_true")))))
    ELSE ConsumeStore(options, tokens, ns, m, Len(tokens) > 1 /\ IsArgumentToken(options, tokens[2]))

\* ArgumentParser.parse_args(args) over the tokens left; ns is the namespace so far
ConsumeTokens(options, tokens, ns) ==
    IF Len(tokens) = 0 THEN Ok(ns)
    ELSE IF IsArgumentToken(options, tokens[1]) THEN ParseError("unrecognized arguments", tokens[1])
    ELSE ConsumeOption(options, tokens, ns, MatchOption(options, tokens[1]))

\* a string default of an option that was not given is passed through the option's type
LateDefault(o) ==
    IF o.action = "store" /\ TagOf(o.default) = "str" THEN ApplyArgumentType(o.type, o.default[2])
    ELSE Ok(o.default)

\* the namespace parse_args returns: every dest, given or at its default
Namespace(defaults, parsed) ==
    IF IsRaise(parsed) THEN parsed
    ELSE IF \E d \in (DOMAIN defaults) \ DOMAIN ValueOf(parsed) : IsRaise(defaults[d])
    THEN ParseError("invalid default", <<>>)
    ELSE Ok([d \in DOMAIN defaults |-> IF d \in DOMAIN ValueOf(parsed) THEN ValueOf(parsed)[d]
                                       ELSE ValueOf(defaults[d])])

\* the stored options, by dest
OptionsByDest(stored) == [d \in {o.dest : o \in stored} |-> LateDefault(CHOOSE o \in stored : o.dest = d)]

\* parser.parse_args(args)
ParseArgs(options, tokens) ==
    Namespace(OptionsByDest({o \in options : o.action # "help"}), ConsumeTokens(options, tokens, EmptyMap))

\* `arg_name in args_str or f"--no-{...}" in args_str` (line 132)
WasProvided(args_str, n) ==
    \/ StrContains(args_str, DashDash \o ConvertToArgumentName(n))
    \/ StrContains(args_str, DashDash \o NoPrefix \o ConvertToArgumentName(n))

\* the setattr calls of lines 133-136 for the names in `written`
IncorporateWritten(args, annotations, cli_config_instance, written) ==
    [ attrs |-> Update(cli_config_instance.attrs, [n \in written |-> args[n]]),
      ann   |-> Update(cli_config_instance.ann, [n \in written \cap DOMAIN annotations |-> annotations[n]]) ]

\* _incorporate_parsed_arguments(args, config_instance, cli_config_instance, provided_args):
\* the command-line config instance afterwards
IncorporateParsedArguments(args, config_instance, cli_config_instance, provided_args) ==
    IncorporateWritten(args, config_instance.ann, cli_config_instance,
        {n \in DOMAIN args : /\ n \in DOMAIN config_instance.attrs \/ n \in DOMAIN config_instance.ann
                             /\ WasProvided(JoinSpace(provided_args), n)})

\* what parse_command_line_arguments does with the parse: <<outcome, cli_config_instance afterwards>>
IncorporateOutcome(parsed_args, config_instance, cli_config_instance, args) ==
    IF IsRaise(parsed_args) THEN <<parsed_args, cli_config_instance>>
    ELSE <<parsed_args,
           IncorporateParsedArguments(ValueOf(parsed_args), config_instance, cli_config_instance, args)>>

\* parser.parse_args(args) on the parser _get_arg_parser returned, if it returned one
ParseWith(parser, args) == IF IsOk(parser) THEN ParseArgs(ValueOf(parser), args) ELSE parser

\* parse_command_line_arguments(config_instance, cli_config_instance, None, args)
ParseCommandLineArguments(config_instance, cli_config_instance, args) ==
    IncorporateOutcome(ParseWith(GetArgParser(config_instance), args), config_instance, cli_config_instance, args)

----------------------------------------------------------------------------
(* The generated views and the command-line entry point of CheapSettings *)

\* every name the class's schema holds, own or inherited: an attribute or an annotation
\* of a config instance along the MRO
SchemaNames(c) ==
    UNION {(DOMAIN cfg[k].attrs) \cup (DOMAIN cfg[k].ann) : k \in {k \in SeqRange(MroOf[c]) : HasConfig(k)}}

\* the classes of the MRO whose config instance declares the name
SchemaHolders(c, n) ==
    SelectSeq(MroOf[c], LAMBDA k : HasConfig(k) /\ n \in (DOMAIN cfg[k].attrs) \cup (DOMAIN cfg[k].ann))

\* the config instance that answers for a schema name: the first one along the MRO
SchemaConfig(c, n) == cfg[SchemaHolders(c, n)[1]]

\* a method or other callable written in the class body, which is no setting
IsCallable(config_instance, n) ==
    n \in DOMAIN config_instance.attrs /\ TagOf(config_instance.attrs[n]) = "method"
IsCallableEntry(c, n) == IsCallable(SchemaConfig(c, n), n)

SettingNames(c) == {n \in SchemaNames(c) : ~IsCallableEntry(c, n)}

\* the copy to_static makes of the values it resolved, or the errors the reads raised
ToStaticFrom(c, resolved) ==
    IF \E n \in DOMAIN resolved : IsRaise(resolved[n])
    THEN {resolved[n] : n \in {m \in DOMAIN resolved : IsRaise(resolved[m])}}
    ELSE {Ok([kind |-> "static", cls |-> c, attrs |-> [n \in DOMAIN resolved |-> ValueOf(resolved[n])]])}

\* to_static(): the resolved value of every setting, or the error of a read that raises
ToStaticOutcomes(c) == ToStaticFrom(c, [n \in SettingNames(c) |-> Resolve(c, n)])

\* the type a setting is coerced to: its declared type, else the runtime type of its default
SettingType(config_instance, n) ==
    IF n \in DOMAIN config_instance.ann THEN config_instance.ann[n]
    ELSE TypeOfValue(config_instance.attrs[n])

\* environment lookup and coercion for a setting whose variable is set
CoerceFromEnv(config_instance, n) ==
    ConvertValueToType(VStr(env[EnvName(n)]), SettingType(config_instance, n))

\* the view from_env builds of the coercions that succeeded
FromEnvKeep(c, coerced) ==
    [kind |-> "from_env", cls |-> c,
     attrs |-> [n \in {m \in DOMAIN coerced : IsOk(coerced[m])} |-> ValueOf(coerced[n])]]

\* from_env(): the settings whose variable is set and coerces; a failed coercion is dropped
FromEnvView(c) ==
    FromEnvKeep(c, [n \in {m \in SettingNames(c) : EnvIsSet(m)} |-> CoerceFromEnv(SchemaConfig(c, n), n)])

\* a generated class that keeps a link to the settings class and resolves on every read
ViewGetAttrLive(view, n) == Resolve(view.cls, n)

\* reading an attribute of a generated class, which is a plain class
ViewGetAttr(view, n) ==
    IF n \in DOMAIN view.attrs THEN Ok(view.attrs[n])
    ELSE Raise("AttributeError", <<"type object has no attribute", n>>)

EmptyConfig == [ann |-> EmptyMap, attrs |-> EmptyMap, dict |-> EmptyMap]
EmptyCli == [attrs |-> EmptyMap, ann |-> EmptyMap]

\* the class's command-line config instance, created on the first call
CliOf(c) == IF c \in DOMAIN cli THEN cli[c] ELSE EmptyCli

----------------------------------------------------------------------------
(* The settings, texts and tokens the model runs the program on *)

MaxEnvVars == 2    \* environment variables set at the same time
MaxViews == 1      \* generated classes kept
MaxArgs == 2       \* tokens on a command line

N_x          == <<"x">>
N_port       == <<"p","o","r","t">>
N_u          == <<"u">>
N_run        == <<"r","u","n">>
N_debug      == <<"d","e","b","u","g">>
N_debug_mode == <<"d","e","b","u","g","_","m","o","d","e">>
N_host       == <<"h","o","s","t">>
N_missing    == <<"n","o","n","e","s","u","c","h">>

E_7    == <<"7">>
E_9000 == <<"9","0","0","0">>
E_bad  == <<"z">>
E_true == <<"t","r","u","e">>

\* class Base(CheapSettings): x: int = 1; port = 8080; def run(self): ...
BodyTyped == [ ann  |-> (N_x :> TInt),
               body |-> (N_x :> VInt(1)) @@ (N_port :> VInt(8080)) @@ (N_run :> VMethod("run")) ]
\* class Base(CheapSettings): x: int = 1; port = 8080; u: int
BodyUninit == [ ann  |-> (N_x :> TInt) @@ (N_u :> TInt),
                body |-> (N_x :> VInt(1)) @@ (N_port :> VInt(8080)) ]
\* class Child(Base): x = 2
ChildOverride == [ ann |-> EmptyMap, body |-> (N_x :> VInt(2)) ]
\* class Child(Base): x = 2; u: int
ChildUninit == [ ann |-> (N_u :> TInt), body |-> (N_x :> VInt(2)) ]
\* class Child(Base): pass
ChildPlain == [ ann |-> EmptyMap, body |-> EmptyMap ]
\* class Base(CheapSettings): x: int = 1; debug: bool = False; debug_mode: bool = False; host: str = "a"
BodyFlags == [ ann  |-> (N_x :> TInt) @@ (N_debug :> TBool) @@ (N_debug_mode :> TBool) @@ (N_host :> TStr),
               body |-> (N_x :> VInt(1)) @@ (N_debug :> VBool(FALSE)) @@ (N_debug_mode :> VBool(FALSE))
                        @@ (N_host :> VStr(<<"a">>)) ]

\* class Child(Base): x = "a"
ChildRedefault == [ ann |-> EmptyMap, body |-> (N_x :> VStr(<<"a">>)) ]
\* class Child(Base): x: str
ChildRetyped == [ ann |-> (N_x :> TStr), body |-> EmptyMap ]

\* class Grand(Child): port = 1
GrandPort == [ ann |-> EmptyMap, body |-> (N_port :> VInt(1)) ]
\* class Right(Base): x: int = 3
RightOverride == [ ann |-> (N_x :> TInt), body |-> (N_x :> VInt(3)) ]

\* The class statements of a hierarchy with a chain three deep and two diamonds:
\* Base; Child(Base); Grand(Child); Left(Base); Right(Base); Diamond(Left, Right);
\* Mirror(Right, Left)
Declared == [ Base    |-> BodyTyped,
              Child   |-> ChildOverride,
              Grand   |-> GrandPort,
              Left    |-> ChildPlain,
              Right   |-> RightOverride,
              Diamond |-> ChildPlain,
              Mirror  |-> ChildPlain ]

Bodies(c) == IF c = "Base" THEN {BodyTyped, BodyUninit} ELSE {ChildOverride, ChildUninit, ChildPlain}

T_x          == DashDash \o N_x
T_5          == <<"5">>
T_debug      == DashDash \o N_debug
T_debug_mode == DashDash \o <<"d","e","b","u","g","-","m","o","d","e">>
T_host_x     == DashDash \o N_host \o <<"=">> \o T_x
CliTokens == {T_x, T_5, T_debug, T_debug_mode, T_host_x}
ArgLists == UNION {[1..n -> CliTokens] : n \in 0..MaxArgs}

N_tags    == <<"t","a","g","s">>
N_conf    == <<"c","o","n","f">>
N_custom  == <<"c","u","s","t","o","m">>
N_failing == <<"f","a","i","l","i","n","g">>
N_maybe   == <<"m","a","y","b","e">>
N_amount  == <<"a","m","o","u","n","t">>
N_ident   == <<"i","d","e","n","t">>
N_plain   == <<"p","l","a","i","n">>
N_weird   == <<"w","e","i","r","d">>

E_list_ab      == <<"[","\"","a","\"",",","\"","b","\"","]">>
E_dict_a1      == <<"{","\"","a","\"",":","1","}">>
E_21           == <<"2","1">>
E_none         == <<"n","o","n","e">>
E_12_50        == <<"1","2",".","5","0">>
E_not_a_number == <<"n","o","t","-","a","-","n","u","m","b","e","r">>
E_uuid         == <<"5","5","0","e","8","4","0","0","e","2","9","b","4","1","d","4",
                    "a","7","1","6","4","4","6","6","5","5","4","4","0","0","0","0">>
E_not_a_uuid   == <<"n","o","t","-","a","-","u","u","i","d">>
E_single_quoted == <<"[","'","a","'","]">>
E_unquoted      == <<"[","a","]">>
E_empty         == <<>>

\* class Base(CheapSettings): tags: list = []; conf: dict = {}; custom: CustomType = CustomType(10);
\*     failing: FailingType = None; maybe: Optional[CustomType] = None;
\*     amount: Decimal = Decimal("0.00"); ident: UUID = UUID("0000...");
\*     plain: CustomTypeNoFromString = CustomTypeNoFromString("d"); weird: WeirdType = WeirdType()
BodyTypes ==
    [ ann  |-> (N_tags :> TList) @@ (N_conf :> TDict) @@ (N_custom :> TClass("CustomType"))
               @@ (N_failing :> TClass("FailingType")) @@ (N_maybe :> TOptional(TClass("CustomType")))
               @@ (N_amount :> TClass("Decimal")) @@ (N_ident :> TClass("UUID"))
               @@ (N_plain :> TClass("CustomTypeNoFromString")) @@ (N_weird :> TClass("WeirdType")),
      body |-> (N_tags :> VList(<<>>)) @@ (N_conf :> VDict(<<>>)) @@ (N_custom :> VObj("CustomType", 10))
               @@ (N_failing :> VNone) @@ (N_maybe :> VNone)
               @@ (N_amount :> VObj("Decimal", <<0, 0, -2>>)) @@ (N_ident :> VObj("UUID", <<"0">>))
               @@ (N_plain :> VObj("CustomTypeNoFromString", <<"d">>)) @@ (N_weird :> VObj("WeirdType", <<>>)) ]

\* the texts each variable of BodyTypes is set to
TypeEnvTexts ==
    (N_tags :> {E_list_ab, E_dict_a1, E_7, E_single_quoted, E_unquoted, E_empty})
    @@ (N_conf :> {E_dict_a1, E_list_ab, E_empty})
    @@ (N_custom :> {E_21, E_bad}) @@ (N_failing :> {E_bad}) @@ (N_maybe :> {E_21, E_bad, E_none})
    @@ (N_amount :> {E_12_50, E_not_a_number}) @@ (N_ident :> {E_uuid, E_not_a_uuid})
    @@ (N_plain :> {E_bad}) @@ (N_weird :> {E_bad, E_21})

N_verbose == <<"v","e","r","b","o","s","e">>
N_strict  == <<"s","t","r","i","c","t">>
N_names   == <<"n","a","m","e","s">>
N_opt     == <<"o","p","t">>
N_help    == <<"h","e","l","p">>

\* class Base(CheapSettings): debug: bool = False; debug_mode: bool = False;
\*     verbose: bool = True; strict: bool; x: int = 1
BodyBools == [ ann  |-> (N_debug :> TBool) @@ (N_debug_mode :> TBool) @@ (N_verbose :> TBool)
                        @@ (N_strict :> TBool) @@ (N_x :> TInt),
               body |-> (N_debug :> VBool(FALSE)) @@ (N_debug_mode :> VBool(FALSE))
                        @@ (N_verbose :> VBool(TRUE)) @@ (N_x :> VInt(1)) ]
\* class Base(CheapSettings): tags: list = []; names: list[str] = []; opt: Optional[list] = None;
\*     conf = {}; x: int = 1
BodyLists == [ ann  |-> (N_tags :> TList) @@ (N_names :> TGeneric("list", <<TStr>>))
                        @@ (N_opt :> TOptional(TList)) @@ (N_x :> TInt),
               body |-> (N_tags :> VList(<<>>)) @@ (N_names :> VList(<<>>)) @@ (N_opt :> VNone)
                        @@ (N_conf :> VDict(<<>>)) @@ (N_x :> VInt(1)) ]
\* class Base(CheapSettings): help: str = "a"; x: int = 1
BodyHelp == [ ann  |-> (N_help :> TStr) @@ (N_x :> TInt),
              body |-> (N_help :> VStr(<<"a">>)) @@ (N_x :> VInt(1)) ]

T_no_verbose == DashDash \o NoPrefix \o N_verbose
T_verbose    == DashDash \o N_verbose
T_strict     == DashDash \o N_strict
T_strict_off == DashDash \o N_strict \o <<"=","o","f","f">>
T_yes        == <<"y","e","s">>
T_maybe      == <<"m","a","y","b","e">>
T_tags       == DashDash \o N_tags
T_names      == DashDash \o N_names
T_opt        == DashDash \o N_opt
T_conf       == DashDash \o N_conf

\* the command lines given to the classes with flags
FlagCommandLines ==
    { <<>>, <<T_debug>>, <<T_debug_mode>>, <<T_no_verbose>>, <<T_verbose>>, <<T_debug, T_no_verbose>>,
      <<T_strict, T_yes>>, <<T_strict, T_maybe>>, <<T_strict_off>>,
      <<T_tags, T_5>>, <<T_names, T_5>>, <<T_opt, T_5>>, <<T_conf, T_5>>, <<T_x, T_5>> }

N_limit  == <<"l","i","m","i","t">>
N_label  == <<"l","a","b","e","l">>
N_either == <<"e","i","t","h","e","r">>

\* class Base(CheapSettings): limit: Optional[int] = None; label: Optional[str] = None;
\*     either: Union[int, str] = 0
BodyOptional == [ ann  |-> (N_limit :> TOptional(TInt)) @@ (N_label :> TOptional(TStr))
                           @@ (N_either :> TUnion(<<TInt, TStr>>)),
                  body |-> (N_limit :> VNone) @@ (N_label :> VNone) @@ (N_either :> VInt(0)) ]

T_limit  == DashDash \o N_limit
T_label  == DashDash \o N_label
T_either == DashDash \o N_either

\* command lines that give one union-typed setting a value: a number, the null word,
\* a word that is no number
UnionCommandLines ==
    { <<>>, <<T_limit, T_5>>, <<T_limit, E_none>>, <<T_label, E_none>>, <<T_label, E_bad>>,
      <<T_either, T_5>>, <<T_either, E_bad>> }

N_ratio == <<"r","a","t","i","o">>

\* class Base(CheapSettings): x: int = 1; ratio: float = 1.5; debug: bool = False;
\*     host: str = "a"; tags: list = []; conf: dict = {}
BodyEmpty == [ ann  |-> (N_x :> TInt) @@ (N_ratio :> TFloat) @@ (N_debug :> TBool) @@ (N_host :> TStr)
                        @@ (N_tags :> TList) @@ (N_conf :> TDict),
               body |-> (N_x :> VInt(1)) @@ (N_ratio :> VFloat(15, 1)) @@ (N_debug :> VBool(FALSE))
                        @@ (N_host :> VStr(<<"a">>)) @@ (N_tags :> VList(<<>>)) @@ (N_conf :> VDict(<<>>)) ]

\* The inputs of _convert_value_to_type: every text over a small alphabet up to a
\* length, the words of the boolean and null vocabularies in several cases, JSON texts
\* and numbers; values that are not strings; scalar, container, union and unknown types.
MaxTextLen == 2    \* length of the texts enumerated over CoerceAlphabet
CoerceAlphabet == {"o", "n", "N", "1", "0"}
TextsUpTo(n) == UNION {[1..k -> CoerceAlphabet] : k \in 0..n}
CoerceWords ==
    { <<"t","r","u","e">>, <<"T","r","u","e">>, <<"T","R","U","E">>, <<"y","e","s">>, <<"Y","E","S">>,
      <<"O","n">>, <<"f","a","l","s","e">>, <<"F","a","l","s","e">>, <<"o","f","f">>, <<"O","F","F">>,
      <<"n","o","n","e">>, <<"N","o","n","e">>, <<"N","O","N","E">>, <<"n","O","n","E">>,
      <<" ","n","o","n","e">>, <<"t","r","u","e","e">>, <<"t","r","u","e"," ">>, <<"n","u","l","l">>,
      <<"-","3">>, <<"1",".","5">>, <<"[","1","]">>, <<"[","]">>, <<"{","}">>,
      <<"{","\"","a","\"",":","1","}">>, <<"\"","a","\"">>, <<"[","1",",">>, <<"a","b","c">> }
CoerceTexts == TextsUpTo(MaxTextLen) \cup CoerceWords
CoerceNonStrings ==
    { VNone, VInt(5), VBool(TRUE), VFloat(15, 1), VList(<<VInt(1)>>), VDict(<<>>), VObj("Path", <<"/">>) }
CoerceTypes ==
    { TInt, TFloat, TBool, TStr, TList, TDict, TClass("Path"),
      TGeneric("list", <<TStr>>), TGeneric("dict", <<TStr, TInt>>),
      TOptional(TStr), TUnion(<<TNone, TStr>>), TOptional(TInt), TOptional(TBool), TOptional(TList),
      TUnion(<<TInt, TStr, TNone>>), TUnion(<<TStr, TInt>>), TUnion(<<TInt, TBool>>),
      TUnion(<<TList, TStr>>), TUnion(<<TInt, TFloat, TNone>>) }

----------------------------------------------------------------------------
(* Operations *)

\* what `result` records: the operation, the class it was called on, the attribute name,
\* what else it was given (the class body, the tokens, the number of the generated class)
\* and what it returned or raised
Done(op, c, n, given, out) == [op |-> op, cls |-> c, name |-> n, given |-> given, out |-> out]
NoResult == Done("none", "", <<>>, <<>>, Ok(VNone))

\* class c(bases): with the class body dct
DefineClass(c, dct) ==
    /\ c \notin DOMAIN cfg
    /\ \A i \in DOMAIN ClassBases[c] : ClassBases[c][i] = "object" \/ HasConfig(ClassBases[c][i])
    /\ cfg' = (c :> NewConfig(cfg, ClassBases[c], dct)) @@ cfg
    /\ result' = Done("class", c, <<>>, dct, Ok(VNone))
    /\ UNCHANGED <<env, cli, views>>

\* os.environ[k] = v
SetEnv(k, v) ==
    /\ Cardinality((DOMAIN env) \cup {k}) <= MaxEnvVars
    /\ env' = (k :> v) @@ env
    /\ result' = NoResult
    /\ UNCHANGED <<cfg, cli, views>>

\* del os.environ[k]
DelEnv(k) ==
    /\ k \in DOMAIN env
    /\ env' = Restrict(env, (DOMAIN env) \ {k})
    /\ result' = NoResult
    /\ UNCHANGED <<cfg, cli, views>>

\* c.n = v on registries that are linked and not copied: the new default is written to
\* the class and to every class that has it in its MRO
SetAttrLinked(c, n, v) ==
    /\ HasConfig(c)
    /\ cfg' = [k \in DOMAIN cfg |-> IF k \in DOMAIN MroOf /\ c \in SeqRange(MroOf[k])
                                     THEN SetAttrConfig(cfg[k], n, v) ELSE cfg[k]]
    /\ result' = Done("setattr", c, n, <<>>, Ok(VNone))
    /\ UNCHANGED <<env, cli, views>>

\* c.n = v
SetAttr(c, n, v) ==
    /\ HasConfig(c)
    /\ cfg' = [cfg EXCEPT ![c] = SetAttrConfig(@, n, v)]
    /\ result' = Done("setattr", c, n, <<>>, Ok(VNone))
    /\ UNCHANGED <<env, cli, views>>

\* c.n by a __getattribute__ that keeps what it resolved as the class's default
GetAttributeCaching(c, n) ==
    /\ HasConfig(c)
    /\ cfg' = IF IsOk(Resolve(c, n)) THEN [cfg EXCEPT ![c] = SetAttrConfig(@, n, ValueOf(Resolve(c, n)))] ELSE cfg
    /\ result' = Done("getattr", c, n, <<>>, Resolve(c, n))
    /\ UNCHANGED <<env, cli, views>>

\* c.n
GetAttribute(c, n) ==
    /\ HasConfig(c)
    /\ result' = Done("getattr", c, n, <<>>, Resolve(c, n))
    /\ UNCHANGED <<cfg, env, cli, views>>

\* the command-line config instance is kept on the class; an error of the parse is raised
KeepCommandLine(c, args, r) ==
    /\ cli' = (c :> r[2]) @@ cli
    /\ result' = Done("cli", c, <<>>, args, IF IsOk(r[1]) THEN Ok(VNone) ELSE r[1])

\* c.set_config_from_command_line(args=args)
SetConfigFromCommandLine(c, args) ==
    /\ HasConfig(c)
    /\ KeepCommandLine(c, args, ParseCommandLineArguments(cfg[c], CliOf(c), args))
    /\ UNCHANGED <<cfg, env, views>>

\* c.to_static()
ToStatic(c) ==
    /\ HasConfig(c)
    /\ Len(views) < MaxViews
    /\ \E out \in ToStaticOutcomes(c) :
          /\ views' = IF IsOk(out) THEN Append(views, ValueOf(out)) ELSE views
          /\ result' = Done("to_static", c, <<>>, Len(views) + 1, IF IsOk(out) THEN Ok(VNone) ELSE out)
    /\ UNCHANGED <<cfg, env, cli>>

\* c.from_env()
FromEnv(c) ==
    /\ HasConfig(c)
    /\ Len(views) < MaxViews
    /\ views' = Append(views, FromEnvView(c))
    /\ result' = Done("from_env", c, <<>>, Len(views) + 1, Ok(VNone))
    /\ UNCHANGED <<cfg, env, cli>>

\* view.n, for the i-th generated class
ReadView(i, n) ==
    /\ i \in DOMAIN views
    /\ result' = Done("viewattr", views[i].cls, n, i, ViewGetAttr(views[i], n))
    /\ UNCHANGED <<cfg, env, cli, views>>

\* _convert_value_to_type(value, to_type), called on the arguments that are waiting
Coerce ==
    /\ result.op = "input"
    /\ result' = Done("coerce", "", <<>>, result.given,
                       ConvertValueToType(result.given[1], result.given[2]))
    /\ UNCHANGED <<cfg, env, cli, views>>

----------------------------------------------------------------------------
(* Specifications *)

NoClasses == ("CheapSettings" :> EmptyConfig)
Defining(configs, c, dct) == (c :> NewConfig(configs, ClassBases[c], dct)) @@ configs

\* Classes are defined, the environment changes, defaults are reassigned, settings are read
Init ==
    /\ cfg = NoClasses
    /\ env = EmptyMap
    /\ cli = EmptyMap
    /\ views = <<>>
    /\ result = NoResult

CoreEnvKeys == {EnvName(N_x), EnvName(N_port), EnvName(N_u), N_x}
CoreEnvValues == {E_7, E_9000, E_bad}
CoreNames == {N_x, N_port, N_u, N_missing}

Next ==
    \/ \E c \in {"Base", "Child"} : \E dct \in Bodies(c) : DefineClass(c, dct)
    \/ \E k \in CoreEnvKeys, v \in CoreEnvValues : SetEnv(k, v)
    \/ \E k \in CoreEnvKeys : DelEnv(k)
    \/ \E c \in {"Base", "Child"} : SetAttr(c, N_x, VInt(3))
    \/ \E c \in {"Base", "Child"}, n \in CoreNames : GetAttribute(c, n)

Spec == Init /\ [][Next]_vars

\* One settings class with flags; command lines are resolved while the environment changes
InitCli ==
    /\ cfg = Defining(NoClasses, "Base", BodyFlags)
    /\ env = EmptyMap
    /\ cli = EmptyMap
    /\ views = <<>>
    /\ result = NoResult

CliEnvKeys == {EnvName(N_x), EnvName(N_debug)}
CliEnvValues == {E_7, E_true}

NextCli ==
    \/ \E k \in CliEnvKeys, v \in CliEnvValues : SetEnv(k, v)
    \/ \E k \in CliEnvKeys : DelEnv(k)
    \/ \E args \in ArgLists : SetConfigFromCommandLine("Base", args)
    \/ \E n \in {N_x, N_debug, N_debug_mode, N_host} : GetAttribute("Base", n)

SpecCli == InitCli /\ [][NextCli]_vars

\* Base and Child exist; views are generated and read while everything else changes
InitView ==
    /\ \E dct \in Bodies("Base") :
          cfg = Defining(Defining(NoClasses, "Base", dct), "Child", ChildOverride)
    /\ env = EmptyMap
    /\ cli = EmptyMap
    /\ views = <<>>
    /\ result = NoResult

ViewEnvKeys == {EnvName(N_x), EnvName(N_port)}
ViewEnvValues == {E_7, E_bad}
ViewNames == {N_x, N_port, N_run}

NextView ==
    \/ \E k \in ViewEnvKeys, v \in ViewEnvValues : SetEnv(k, v)
    \/ \E k \in ViewEnvKeys : DelEnv(k)
    \/ SetAttr("Child", N_x, VInt(3))
    \/ SetConfigFromCommandLine("Child", <<T_x, T_5>>)
    \/ \E c \in {"Base", "Child"} : ToStatic(c)
    \/ \E c \in {"Base", "Child"} : FromEnv(c)
    \/ \E i \in 1..MaxViews, n \in ViewNames : ReadView(i, n)

SpecView == InitView /\ [][NextView]_vars

\* One settings class with container, custom and extended types, read while its
\* variables are set and removed
InitTypes ==
    /\ cfg = Defining(NoClasses, "Base", BodyTypes)
    /\ env = EmptyMap
    /\ cli = EmptyMap
    /\ views = <<>>
    /\ result = NoResult

NextTypes ==
    \/ \E n \in DOMAIN TypeEnvTexts : \E v \in TypeEnvTexts[n] : SetEnv(EnvName(n), v)
    \/ \E n \in DOMAIN TypeEnvTexts : DelEnv(EnvName(n))
    \/ \E n \in DOMAIN TypeEnvTexts : GetAttribute("Base", n)

SpecTypes == InitTypes /\ [][NextTypes]_vars

\* A class with boolean flags, with containers or with a reserved name is defined, command
\* lines are resolved and settings are read
FlagBodies == {BodyBools, BodyLists, BodyHelp}
FlagNames == {N_debug, N_verbose, N_strict, N_names, N_help, N_x}

NextFlags ==
    \/ \E dct \in FlagBodies : DefineClass("Base", dct)
    \/ SetEnv(EnvName(N_debug), E_true)
    \/ DelEnv(EnvName(N_debug))
    \/ \E args \in FlagCommandLines : SetConfigFromCommandLine("Base", args)
    \/ \E n \in FlagNames : GetAttribute("Base", n)

SpecFlags == Init /\ [][NextFlags]_vars

\* Base exists; Child redeclares a setting of Base with a value only, or with a type only
InitInherit ==
    /\ cfg = Defining(NoClasses, "Base", BodyTyped)
    /\ env = EmptyMap
    /\ cli = EmptyMap
    /\ views = <<>>
    /\ result = NoResult

NextInherit ==
    \/ \E dct \in {ChildOverride, ChildRedefault, ChildRetyped} : DefineClass("Child", dct)
    \/ \E k \in ViewEnvKeys, v \in ViewEnvValues : SetEnv(k, v)
    \/ \E k \in ViewEnvKeys : DelEnv(k)
    \/ \E c \in {"Base", "Child"}, n \in {N_x, N_port} : GetAttribute(c, n)

SpecInherit == InitInherit /\ [][NextInherit]_vars

\* The coercion engine alone: a text or a value that is not a string, and a target type
InitCoerce ==
    /\ cfg = NoClasses
    /\ env = EmptyMap
    /\ cli = EmptyMap
    /\ views = <<>>
    /\ \E value \in {VStr(text) : text \in CoerceTexts} \cup CoerceNonStrings, to_type \in CoerceTypes :
          result = Done("input", "", <<>>, <<value, to_type>>, Ok(VNone))

NextCoerce == Coerce

SpecCoerce == InitCoerce /\ [][NextCoerce]_vars

\* A hierarchy is declared class by class, bases first, and read while X is set and removed
NextMro ==
    \/ \E c \in (DOMAIN Declared) \ {"Base"} : DefineClass(c, Declared[c])
    \/ SetEnv(EnvName(N_x), E_7)
    \/ DelEnv(EnvName(N_x))
    \/ \E c \in DOMAIN Declared, n \in {N_x, N_port} : GetAttribute(c, n)

SpecMro == InitInherit /\ [][NextMro]_vars

\* One settings class with flags: settings are read, with texts that convert and texts
\* that do not, between command-line resolutions that succeed and that fail
FrameCommandLines == {<<>>, <<T_debug>>, <<T_x, T_5>>, <<T_x>>, <<T_host_x>>, <<T_x, T_5, T_debug>>}

NextFrame ==
    \/ \E k \in CliEnvKeys, v \in {E_7, E_bad} : SetEnv(k, v)
    \/ \E k \in CliEnvKeys : DelEnv(k)
    \/ \E args \in FrameCommandLines : SetConfigFromCommandLine("Base", args)
    \/ \E n \in {N_x, N_debug, N_host, N_missing} : GetAttribute("Base", n)

SpecFrame == InitCli /\ [][NextFrame]_vars

\* One settings class with optional and union settings: command lines are resolved and
\* settings are read while LIMIT is set and removed
InitUnionFlags ==
    /\ cfg = Defining(NoClasses, "Base", BodyOptional)
    /\ env = EmptyMap
    /\ cli = EmptyMap
    /\ views = <<>>
    /\ result = NoResult

NextUnionFlags ==
    \/ \E v \in {E_7, E_none} : SetEnv(EnvName(N_limit), v)
    \/ DelEnv(EnvName(N_limit))
    \/ \E args \in UnionCommandLines : SetConfigFromCommandLine("Base", args)
    \/ \E n \in {N_limit, N_label, N_either} : GetAttribute("Base", n)

SpecUnionFlags == InitUnionFlags /\ [][NextUnionFlags]_vars

\* One settings class with a setting of every basic type, read while its variables are
\* set to the empty text and to "1" and removed
InitEmpty ==
    /\ cfg = Defining(NoClasses, "Base", BodyEmpty)
    /\ env = EmptyMap
    /\ cli = EmptyMap
    /\ views = <<>>
    /\ result = NoResult

NextEmpty ==
    \/ \E n \in DOMAIN BodyEmpty.ann, v \in {E_empty, <<"1">>} : SetEnv(EnvName(n), v)
    \/ \E n \in DOMAIN BodyEmpty.ann : DelEnv(EnvName(n))
    \/ \E n \in DOMAIN BodyEmpty.ann : GetAttribute("Base", n)

SpecEmpty == InitEmpty /\ [][NextEmpty]_vars

----------------------------------------------------------------------------
(* Properties *)

\* the setting a read was about: the last operation read a name of the class's schema
\* that is no method
ReadOfSetting ==
    /\ result.op = "getattr"
    /\ result.name \in SchemaNames(result.cls)
    /\ ~IsCallableEntry(result.cls, result.name)

\* the default D of a setting, if it has one
HasDefault(c, n) == n \in DOMAIN SchemaConfig(c, n).attrs
DefaultOf(c, n) == SchemaConfig(c, n).attrs[n]
\* its declared type, if it has one
HasDeclaredType(c, n) == n \in DOMAIN SchemaConfig(c, n).ann

\* coerced(E): the text of the setting's variable coerced to the setting's type, which is
\* the declared type, else the runtime type of the default
CoercedEnv(c, n) == CoerceFromEnv(SchemaConfig(c, n), n)

\* the scalar coercions, by the host's parsers alone
ScalarCoercion(text, type) ==
    IF type = TInt THEN PyInt(text)
    ELSE IF type = TFloat THEN PyFloat(text)
    ELSE IF type = TBool THEN ConvertBool(text)
    ELSE Ok(VStr(text))

\* a token that supplies the flag: the flag itself, or the flag with "=value"
Supplies(tok, flag) == tok = flag \/ StartsWith(tok, flag \o <<"=">>)
\* the setting's own flag, in its --name or its --no-name form, is one of the tokens
FlagGiven(tokens, n) ==
    \E i \in DOMAIN tokens :
        \/ Supplies(tokens[i], DashDash \o ConvertToArgumentName(n))
        \/ Supplies(tokens[i], DashDash \o NoPrefix \o ConvertToArgumentName(n))

\* C1: precedence. Resolving a setting that has a default yields the override-store
\* value if the command line set one, else the coerced value of its environment
\* variable if that is set, else the default.
C1_Precedence ==
    (ReadOfSetting /\ HasDefault(result.cls, result.name)) =>
        result.out = IF result.name \in DOMAIN CliOf(result.cls).attrs
                     THEN Ok(CliOf(result.cls).attrs[result.name])
                     ELSE IF EnvIsSet(result.name) THEN CoercedEnv(result.cls, result.name)
                     ELSE Ok(DefaultOf(result.cls, result.name))

\* C2: a command-line resolution creates or changes the override-store entry of a
\* setting only if the setting's own flag (--name or --no-name) is one of the tokens.
C2_OnlySuppliedFlags ==
    [][result'.op = "cli" =>
          \A n \in DOMAIN cli'[result'.cls].attrs :
              \/ n \in DOMAIN CliOf(result'.cls).attrs
                 /\ cli'[result'.cls].attrs[n] = CliOf(result'.cls).attrs[n]
              \/ FlagGiven(result'.given, n)]_vars

\* C3: resolution is live. A read of a setting with a default returns the coerced
\* value of the variable named by the upper-cased attribute name as the environment
\* is at the read, and the default when the variable is not set.
C3_LiveRead ==
    (ReadOfSetting /\ HasDefault(result.cls, result.name)) =>
        IF StrUpper(result.name) \in DOMAIN env
        THEN result.out = ConvertValueToType(VStr(env[StrUpper(result.name)]),
                                             SettingType(SchemaConfig(result.cls, result.name), result.name))
        ELSE result.out = Ok(DefaultOf(result.cls, result.name))

C5_FrozenViewHoldsEverySetting ==
    (/\ result.op = "to_static"
     /\ \A n \in SettingNames(result.cls) :
           ~(IsRaise(Resolve(result.cls, n)) /\ ExcIsA(ExcOf(Resolve(result.cls, n)), "ValueError")))
    => /\ IsOk(result.out)
       /\ DOMAIN views[result.given].attrs = SettingNames(result.cls)
       /\ \A n \in SettingNames(result.cls) : Ok(views[result.given].attrs[n]) = Resolve(result.cls, n)

\* C6: the view from_env returns holds a setting, own or inherited, if and only if its
\* variable is set and its text coerces to the setting's type; then it holds the coerced
\* value. from_env raises nothing.
C6_EnvOnlyView ==
    result.op = "from_env" =>
        /\ IsOk(result.out)
        /\ DOMAIN views[result.given].attrs \subseteq SettingNames(result.cls)
        /\ \A n \in SettingNames(result.cls) :
              IF EnvIsSet(n) /\ IsOk(ScalarCoercion(env[EnvName(n)], SettingType(SchemaConfig(result.cls, n), n)))
              THEN /\ n \in DOMAIN views[result.given].attrs
                   /\ Ok(views[result.given].attrs[n])
                        = ScalarCoercion(env[EnvName(n)], SettingType(SchemaConfig(result.cls, n), n))
              ELSE n \notin DOMAIN views[result.given].attrs

\* from_env kept a setting whose variable coerces, dropped one whose variable does not
\* coerce, and dropped one whose variable is not set
C6_Witness ==
    /\ result.op = "from_env"
    /\ result.cls = "Child"
    /\ \E n \in SettingNames(result.cls) : n \in DOMAIN views[result.given].attrs
    /\ \E n \in SettingNames(result.cls) : EnvIsSet(n) /\ n \notin DOMAIN views[result.given].attrs
    /\ \E n \in SettingNames(result.cls) : ~EnvIsSet(n)

\* C7: a read of a setting whose variable is set to a text that does not coerce to the
\* setting's type raises the conversion error; it returns no value.
C7_ConversionErrorRaised ==
    (ReadOfSetting /\ EnvIsSet(result.name) /\ IsRaise(CoercedEnv(result.cls, result.name))) =>
        IsRaise(result.out) /\ ExcIsA(ExcOf(result.out), "ValueError")

\* C8: right after Child(Base) is declared, and with no environment value, a setting
\* Child declares resolves on Child to Child's value and a setting Child does not
\* declare resolves on Child as it does on Base; declaring Child changes nothing of
\* Base, which resolves as before.
C8_InheritanceOverride ==
    /\ []((result.op = "class" /\ result.cls = "Child") =>
            \A n \in {N_x, N_port, N_u} :
                ~EnvIsSet(n) => Resolve("Child", n) = IF n \in DOMAIN result.given.body
                                                      THEN Ok(result.given.body[n])
                                                      ELSE Resolve("Base", n))
    /\ [][(result'.op = "class" /\ result'.cls = "Child") =>
              env' = env /\ \A k \in DOMAIN cfg : cfg'[k] = cfg[k]]_vars

\* Base declares x = 1, Child(Base) has just been declared with x = 2
C8_Witness ==
    /\ result.op = "class"
    /\ result.cls = "Child"
    /\ ~EnvIsSet(N_x)
    /\ N_x \in DOMAIN result.given.body
    /\ Resolve("Child", N_x) = Ok(VInt(2))
    /\ Resolve("Base", N_x) = Ok(VInt(1))
    /\ Resolve("Child", N_port) = Ok(VInt(8080))

\* C9: a read of a setting declared with a type and no default, own or inherited,
\* returns None when its variable is not set and the coerced value when it is.
C9_UninitializedIsNone ==
    (ReadOfSetting /\ ~HasDefault(result.cls, result.name)) =>
        result.out = IF EnvIsSet(result.name) THEN CoercedEnv(result.cls, result.name) ELSE Ok(VNone)

\* C10: a read of a setting with no declared type, whose variable is set, returns the
\* text coerced to the runtime type of the default.
C10_InferredType ==
    (ReadOfSetting /\ ~HasDeclaredType(result.cls, result.name) /\ EnvIsSet(result.name)) =>
        result.out = ConvertValueToType(VStr(env[EnvName(result.name)]),
                                        TypeOfValue(DefaultOf(result.cls, result.name)))

\* a call of the coercion engine: its value and its target type
Coerced == result.op = "coerce"
CoercedText == Coerced /\ TagOf(result.given[1]) = "str"
\* a union type that has null as a member
HasNullMember(to_type) == to_type[1] = "Union" /\ \E i \in DOMAIN to_type[2] : to_type[2][i] = TNone

\* the boolean vocabulary
Truthy == {<<"t","r","u","e">>, <<"1">>, <<"y","e","s">>, <<"o","n">>}
Falsy  == {<<"f","a","l","s","e">>, <<"0">>, <<"n","o">>, <<"o","f","f">>}

\* C11: boolean coercion. Coercing a string to bool returns true iff its lower-case
\* form is one of true, 1, yes, on; returns false iff it is one of false, 0, no, off;
\* and for every other string fails with the "not a valid boolean" error.
C11_BooleanVocabulary ==
    (CoercedText /\ result.given[2] = TBool) =>
        /\ result.out = Ok(VBool(TRUE)) <=> StrLower(result.given[1][2]) \in Truthy
        /\ result.out = Ok(VBool(FALSE)) <=> StrLower(result.given[1][2]) \in Falsy
        /\ StrLower(result.given[1][2]) \notin Truthy \cup Falsy =>
              result.out = Raise("ValueError", <<"is not a valid boolean value", result.given[1][2]>>)

\* "YES" was coerced to bool and gave true
C11_Witness ==
    /\ CoercedText
    /\ result.given = <<VStr(<<"Y","E","S">>), TBool>>
    /\ result.out = Ok(VBool(TRUE))

\* C12: union null sentinel. Coercing the text "none", in any letter case, to a union
\* type that has null as a member returns null, whatever the other members are (a str
\* member too) and in whatever order they are declared.
C12_UnionNullSentinel ==
    (CoercedText /\ HasNullMember(result.given[2]) /\ StrLower(result.given[1][2]) = <<"n","o","n","e">>) =>
        result.out = Ok(VNone)

\* "None" was coerced to a union whose first member is str, which accepts every text
C12_Witness ==
    /\ CoercedText
    /\ result.given = <<VStr(<<"N","o","n","e">>), TUnion(<<TInt, TStr, TNone>>)>>
    /\ result.out = Ok(VNone)

\* the declared type of the setting that was read, and the text of its variable
ReadType == SchemaConfig(result.cls, result.name).ann[result.name]
ReadText == env[EnvName(result.name)]
\* a read of a setting with a declared type whose variable is set
ReadOfTypedEnv == ReadOfSetting /\ HasDeclaredType(result.cls, result.name) /\ EnvIsSet(result.name)

\* a type-mismatch error: its message holds the variable, the expected and the actual kind
IsTypeMismatch(out, variable, expected, actual) ==
    /\ IsRaise(out)
    /\ Len(out[3]) = 4
    /\ out[3][2] = variable
    /\ out[3][3] = expected
    /\ out[3][4] = actual

\* C13: container kind check. A read of a setting declared list or dict, whose variable
\* holds valid JSON, returns the parsed container when it is of the declared kind, and
\* otherwise raises a type-mismatch error that names the variable, the expected kind
\* and the actual kind.
C13_ContainerKindCheck ==
    (ReadOfTypedEnv /\ JsonKind(ReadType) # "" /\ IsOk(JsonLoads(ReadText))) =>
        IF TagOf(ValueOf(JsonLoads(ReadText))) = JsonKind(ReadType)
        THEN result.out = JsonLoads(ReadText)
        ELSE IsTypeMismatch(result.out, EnvName(result.name), JsonKind(ReadType),
                            TagOf(ValueOf(JsonLoads(ReadText))))

\* the classes of the tests that define a from_string classmethod
HasFromString(class) == class \in {"CustomType", "FailingType"}

\* CustomType.from_string(s) is cls(int(s) * 2); FailingType.from_string(s) raises
\* ValueError("Cannot parse: ..."); parsed is int(s)
FromStringOf(class, parsed, text) ==
    IF class = "CustomType"
    THEN (IF IsOk(parsed) THEN Ok(VObj("CustomType", 2 * ValueOf(parsed)[2])) ELSE parsed)
    ELSE Raise("ValueError", <<"Cannot parse", text>>)
FromString(class, text) == FromStringOf(class, PyInt(text), text)

\* the type a text is converted by: the type itself, or the non-null member of an optional
HookType(to_type) == IF to_type[1] = "Union" THEN FirstNonNone(to_type[2], to_type) ELSE to_type

\* C15: custom-type hook. A read of a setting whose declared type, or the non-null
\* member of its optional type, defines from_string, and whose variable is set, returns
\* what from_string returns for the text, and raises what from_string raises, unchanged.
C15_FromStringHook ==
    (/\ ReadOfTypedEnv
     /\ HookType(ReadType)[1] = "class"
     /\ HasFromString(HookType(ReadType)[2])
     /\ ~(HasNullMember(ReadType) /\ StrLower(ReadText) = <<"n","o","n","e">>))
    => result.out = FromString(HookType(ReadType)[2], ReadText)

\* text without its underscores, which Decimal() drops
NoUnderscores(s) == SelectSeq(s, LAMBDA c : c # "_")
AllDigits(s) == \A i \in DOMAIN s : IsDigit(s[i])

\* Decimal() on digits [. digits] [e [sign] digits]: m is the mantissa cut at ".", x the
\* text cut at "e"; the value keeps sign, coefficient and exponent as they are written
PyDecimalNumber(m, x, sign, value) ==
    IF /\ AllDigits(m[1]) /\ AllDigits(m[2])
       /\ ~(m[1] = <<>> /\ m[2] = <<>>)
       /\ ~x[3] \/ (Unsigned(x[2]) # <<>> /\ AllDigits(Unsigned(x[2])))
    THEN Ok(VObj("Decimal", <<IF sign < 0 THEN 1 ELSE 0, DigitRunValue(m[1] \o m[2]),
                              SignOf(x[2]) * DigitRunValue(Unsigned(x[2])) - Len(m[2])>>))
    ELSE Raise("InvalidOperation", <<"ConversionSyntax", value>>)
PyDecimalExponent(x, sign, value) == PyDecimalNumber(SplitAt(x[1], FirstIndex(x[1], {"."})), x, sign, value)

\* Decimal(value), body being the stripped text without its underscores and its sign
PyDecimalBody(body, sign, value) ==
    IF StrLower(body) \in {<<"i","n","f">>, <<"i","n","f","i","n","i","t","y">>}
    THEN Ok(VObj("Decimal", <<IF sign < 0 THEN 1 ELSE 0, 0, "F">>))
    ELSE IF StartsWith(StrLower(body), <<"n","a","n">>) /\ AllDigits(SubSeq(body, 4, Len(body)))
    THEN Ok(VObj("Decimal", <<IF sign < 0 THEN 1 ELSE 0, DigitRunValue(SubSeq(body, 4, Len(body))), "n">>))
    ELSE IF StartsWith(StrLower(body), <<"s","n","a","n">>) /\ AllDigits(SubSeq(body, 5, Len(body)))
    THEN Ok(VObj("Decimal", <<IF sign < 0 THEN 1 ELSE 0, DigitRunValue(SubSeq(body, 5, Len(body))), "N">>))
    ELSE PyDecimalExponent(SplitAt(body, FirstIndex(body, {"e", "E"})), sign, value)

\* Decimal(value), the host's parser of arbitrary-precision decimals
PyDecimalStripped(t, value) == PyDecimalBody(Unsigned(t), SignOf(t), value)
PyDecimal(value) == PyDecimalStripped(NoUnderscores(StrStrip(value)), value)

\* the extended types: date, time, datetime, UUID and Decimal
ExtendedClasses == {"date", "time", "datetime", "UUID", "Decimal"}

\* C16: extended types. A read of a setting declared date, time, datetime, UUID or
\* Decimal, whose variable is set, returns a value of that type or raises the parser's
\* error, and never returns the text itself; for Decimal it returns what Decimal()
\* returns for the text and raises what Decimal() raises.
C16_ExtendedTypesParsed ==
    (ReadOfTypedEnv /\ ReadType[1] = "class" /\ ReadType[2] \in ExtendedClasses) =>
        /\ IsOk(result.out) => /\ TagOf(ValueOf(result.out)) = "object"
                               /\ ValueOf(result.out)[2] = ReadType[2]
        /\ ReadType[2] = "Decimal" => result.out = PyDecimal(ReadText)

\* the settings of a class whose type, declared or inferred and without its optional
\* wrapping, is bool
BoolSettings(c) ==
    {n \in SettingNames(c) : HookType(SettingType(SchemaConfig(c, n), n)) = TBool}

\* the options the command surface of a class has for a setting
OptionsFor(c, n) == {o \in ValueOf(GetArgParser(cfg[c])) : o.dest = n}

\* the one option a boolean setting is registered as, by its default
RegisteredAs(c, n, flag, action, type) ==
    /\ OptionsFor(c, n) # {}
    /\ \A o \in OptionsFor(c, n) : o.flag = flag /\ o.action = action /\ o.type = type
BoolRegistration(c, n) ==
    IF HasDefault(c, n) /\ DefaultOf(c, n) = VBool(FALSE)
    THEN RegisteredAs(c, n, DashDash \o ConvertToArgumentName(n), "store_true", TBool)
    ELSE IF HasDefault(c, n) /\ DefaultOf(c, n) = VBool(TRUE)
    THEN RegisteredAs(c, n, DashDash \o NoPrefix \o ConvertToArgumentName(n), "store_false", TBool)
    ELSE RegisteredAs(c, n, DashDash \o ConvertToArgumentName(n), "store", TBoolParser)

\* what the presence of a boolean setting's flag writes
BoolWritten(c, n, store) ==
    /\ n \in DOMAIN store
    /\ IF HasDefault(c, n) /\ DefaultOf(c, n) = VBool(FALSE) THEN store[n] = VBool(TRUE)
       ELSE IF HasDefault(c, n) /\ DefaultOf(c, n) = VBool(TRUE) THEN store[n] = VBool(FALSE)
       ELSE TagOf(store[n]) = "bool"

\* C17: boolean flags. A bool setting with default False is the no-argument flag --name
\* and its presence writes True to the override store; one with default True is only
\* the flag --no-name and its presence writes False; one without a bool default is a
\* one-argument flag parsed by the boolean coercion; and when the flag is not among the
\* tokens the override stays unset and a read gives the environment value, else the
\* default.
C17_BooleanFlags ==
    /\ [](/\ \A c \in (DOMAIN cfg) \ {"CheapSettings"} :
                IsOk(GetArgParser(cfg[c])) => \A n \in BoolSettings(c) : BoolRegistration(c, n)
          /\ (/\ ReadOfSetting
              /\ result.name \in BoolSettings(result.cls)
              /\ HasDefault(result.cls, result.name)
              /\ result.name \notin DOMAIN CliOf(result.cls).attrs)
             => result.out = IF EnvIsSet(result.name) THEN CoercedEnv(result.cls, result.name)
                             ELSE Ok(DefaultOf(result.cls, result.name)))
    /\ [][result'.op = "cli" =>
              \A n \in BoolSettings(result'.cls) :
                  /\ (IsOk(result'.out) /\ FlagGiven(result'.given, n))
                        => BoolWritten(result'.cls, n, cli'[result'.cls].attrs)
                  /\ (~FlagGiven(result'.given, n) /\ n \notin DOMAIN CliOf(result'.cls).attrs)
                        => n \notin DOMAIN cli'[result'.cls].attrs]_vars

\* the settings of a class whose type, declared or inferred, is a list or a dict: bare,
\* parameterized, or wrapped in an optional
ContainerSettings(c) ==
    {n \in SettingNames(c) : JsonKind(HookType(SettingType(SchemaConfig(c, n), n))) # ""}

\* C18: no container-typed setting is a command-line flag. For every setting whose
\* declared or inferred type is a list or a dict (bare, parameterized or optional), the
\* command surface has no flag, and the override store never holds a value for it.
C18_NoContainerFlags ==
    \A c \in (DOMAIN cfg) \ {"CheapSettings"} :
        \A n \in ContainerSettings(c) :
            /\ IsOk(GetArgParser(cfg[c])) => OptionsFor(c, n) = {}
            /\ n \notin DOMAIN CliOf(c).attrs

\* the names reserved by the command surface, and the classes whose schema holds one
ReservedNames == {<<"h","e","l","p">>, <<"h">>}
HasReserved(c) == \E n \in SchemaNames(c) : StrLower(n) \in ReservedNames
\* the error of a setting name that collides with a reserved name
IsReservedConflict(out) ==
    /\ IsRaise(out)
    /\ ExcOf(out) = "ValueError"
    /\ out[3][1] = "conflicts with argparse built-in options"

\* C19: a schema with a setting named help fails when the settings class is defined:
\* no class whose schema holds the name exists, so none can be read.
C19_ReservedNameAtDefinition ==
    \A c \in (DOMAIN cfg) \ {"CheapSettings"} : ~HasReserved(c)

\* C19, amended: a class whose schema holds a reserved name (help or h, in any case) is
\* defined without error and its settings are read without that error; the conflict is
\* raised when the command surface is built, that is by every command-line resolution
\* on the class and by no other, and such a resolution leaves the override store as it
\* was.
C19_ReservedNameAtSurfaceBuild ==
    /\ [](/\ result.op = "class" => IsOk(result.out) /\ result.cls \in DOMAIN cfg
          /\ result.op = "getattr" => ~IsReservedConflict(result.out)
          /\ result.op = "cli" => (IsReservedConflict(result.out) <=> HasReserved(result.cls)))
    /\ [][(result'.op = "cli" /\ HasReserved(result'.cls)) =>
              cli'[result'.cls] = CliOf(result'.cls)]_vars

\* a command line was resolved on the class with the setting help, which had been
\* defined, and the conflict was raised with nothing written
C19_Witness ==
    /\ result.op = "cli"
    /\ N_help \in DOMAIN cfg[result.cls].attrs
    /\ IsReservedConflict(result.out)
    /\ cli[result.cls] = EmptyCli

\* Child(Base) has just been declared; result.given is its class body
ChildDeclared == result.op = "class" /\ result.cls = "Child"
DeclaredAnew == (DOMAIN result.given.ann) \cup (DOMAIN result.given.body)

\* C20: a child's declaration of a name replaces the parent's as a whole. A name the
\* child redeclares with a default and no type has no declared type on the child, and
\* one it redeclares with a type and no default has no default on the child.
C20_WholeReplacement ==
    ChildDeclared =>
        \A n \in DeclaredAnew :
            /\ n \notin DOMAIN result.given.ann => n \notin DOMAIN cfg["Child"].ann
            /\ n \notin DOMAIN result.given.body => n \notin DOMAIN cfg["Child"].attrs

\* C20, amended: a child's declaration of a name replaces the parent's field by field.
\* The type on the child is the child's if it declares one, else the parent's; the
\* default on the child is the child's if it gives one, else the parent's.
C20_FieldByFieldMerge ==
    ChildDeclared =>
        \A n \in DeclaredAnew :
            /\ n \in DOMAIN result.given.ann => cfg["Child"].ann[n] = result.given.ann[n]
            /\ n \in DOMAIN result.given.body => cfg["Child"].attrs[n] = result.given.body[n]
            /\ (n \notin DOMAIN result.given.ann /\ n \in DOMAIN cfg["Base"].ann) =>
                  n \in DOMAIN cfg["Child"].ann /\ cfg["Child"].ann[n] = cfg["Base"].ann[n]
            /\ (n \notin DOMAIN result.given.body /\ n \in DOMAIN cfg["Base"].attrs) =>
                  n \in DOMAIN cfg["Child"].attrs /\ cfg["Child"].attrs[n] = cfg["Base"].attrs[n]

\* Base declares x: int = 1 and Child(Base) has just redeclared x = "a" without a type:
\* x on Child has the default "a" and still the type int
C20_Witness ==
    /\ ChildDeclared
    /\ result.given = ChildRedefault
    /\ cfg["Child"].attrs[N_x] = VStr(<<"a">>)
    /\ cfg["Child"].ann[N_x] = TInt

\* C14: idempotence. Coercing a value that is not a string (a typed value or null) to
\* any type returns the value unchanged and raises nothing.
C14_NonStringUnchanged ==
    (Coerced /\ TagOf(result.given[1]) # "str") => result.out = Ok(result.given[1])

\* the int 5 was coerced to bool, which is not its type, and came back as it was
C14_Witness ==
    /\ Coerced
    /\ result.given = <<VInt(5), TBool>>
    /\ result.out = Ok(VInt(5))

\* the classes of c's linearization that declare a default for n, and a type for n,
\* in their own class statement
DefaultDeclarers(c, n) == SelectSeq(MroOf[c], LAMBDA k : k \in DOMAIN Declared /\ n \in DOMAIN Declared[k].body)
TypeDeclarers(c, n) == SelectSeq(MroOf[c], LAMBDA k : k \in DOMAIN Declared /\ n \in DOMAIN Declared[k].ann)

\* the last operation read a setting of a class of the hierarchy and no variable hid the default
ReadOfDefault == ReadOfSetting /\ result.cls \in DOMAIN Declared /\ ~EnvIsSet(result.name)

\* C21: for every class of a hierarchy (chains of any depth, multiple inheritance,
\* diamonds) the merged registry holds, for each setting name, what the first class of
\* the class's method-resolution linearization that declares the name declared: its
\* default and its type; a read with no environment value returns that default.
C21_FirstDeclarerWins ==
    /\ \A c \in (DOMAIN cfg) \cap (DOMAIN Declared) :
          /\ \A n \in DOMAIN cfg[c].attrs :
                cfg[c].attrs[n] = Declared[DefaultDeclarers(c, n)[1]].body[n]
          /\ \A n \in DOMAIN cfg[c].ann :
                cfg[c].ann[n] = Declared[TypeDeclarers(c, n)[1]].ann[n]
    /\ ReadOfDefault =>
          result.out = Ok(Declared[DefaultDeclarers(result.cls, result.name)[1]].body[result.name])

\* the members of a union other than null, in declared order
NonNullMembers(to_type) == SelectSeq(to_type[2], LAMBDA m : m # TNone)
\* the positions of the members that convert the value without raising
Accepting(value, members) == {i \in DOMAIN members : IsOk(ConvertValueToType(value, members[i]))}
First(positions) == CHOOSE i \in positions : \A j \in positions : i <= j

\* the error "Could not convert '<text>' to any of <types>", which lists every member tried
IsNoMemberMatched(out, text, members) ==
    /\ IsRaise(out)
    /\ ExcOf(out) = "ValueError"
    /\ Len(out[3]) = 3
    /\ out[3][1] = "Could not convert to any of"
    /\ out[3][2] = text
    /\ \A i \in DOMAIN members : \E j \in DOMAIN out[3][3] : out[3][3][j] = members[i]

\* a text was coerced to a union type and the text is not the null sentinel of that type
UnionDispatched ==
    /\ CoercedText
    /\ result.given[2][1] = "Union"
    /\ ~(HasNullMember(result.given[2]) /\ StrLower(result.given[1][2]) = <<"n","o","n","e">>)

\* C22: union dispatch. For a union type and a text that is not the null sentinel the
\* result is that of the first non-null member, in declared order, whose conversion
\* does not raise, whatever error the members before it raised; if every member fails
\* the error is the "no member matched" ValueError that lists the members tried.
C22_UnionDispatch ==
    UnionDispatched =>
        IF Accepting(result.given[1], NonNullMembers(result.given[2])) # {}
        THEN result.out = ConvertValueToType(result.given[1],
                              NonNullMembers(result.given[2])[
                                  First(Accepting(result.given[1], NonNullMembers(result.given[2])))])
        ELSE IsNoMemberMatched(result.out, result.given[1][2], NonNullMembers(result.given[2]))

\* "on" was coerced to Union[list, str]: list raised a JSON error, str took the text
C22_Witness ==
    /\ UnionDispatched
    /\ result.given = <<VStr(<<"o","n">>), TUnion(<<TList, TStr>>)>>
    /\ IsRaise(ConvertValueToType(result.given[1], TList))
    /\ ExcOf(ConvertValueToType(result.given[1], TList)) = "JSONDecodeError"
    /\ result.out = Ok(VStr(<<"o","n">>))

\* a malformed-JSON error: a ValueError whose message holds the variable and the raw
\* value, and for an empty value the reminder that empty values are not valid JSON
IsMalformedJson(out, variable, text) ==
    /\ IsRaise(out)
    /\ ExcIsA(ExcOf(out), "ValueError")
    /\ Len(out[3]) \in {3, 4}
    /\ out[3][2] = variable
    /\ out[3][3] = text
    /\ text = <<>> => (Len(out[3]) = 4 /\ out[3][4] = "Empty values are not valid")

\* C23: a read of a setting declared list or dict, whose variable holds a text that is
\* not parseable JSON (single-quoted or unquoted items, the empty string), raises a
\* malformed-JSON error that is not the type-mismatch error and carries the variable's
\* name and the raw value, with the reminder about empty values for an empty text; the
\* default is not returned.
C23_MalformedJsonError ==
    (ReadOfTypedEnv /\ JsonKind(ReadType) # "" /\ IsRaise(JsonLoads(ReadText))) =>
        /\ IsMalformedJson(result.out, EnvName(result.name), ReadText)
        /\ ~IsTypeMismatch(result.out, EnvName(result.name), JsonKind(ReadType), JsonKind(ReadType))

\* a read of a setting whose variable is set and whose declared type, or the non-null
\* member of its optional type, is a class without a from_string that can be called on
\* the type: CustomTypeNoFromString has none, WeirdType has an instance method
ReadOfHooklessType ==
    /\ ReadOfTypedEnv
    /\ HookType(ReadType)[1] = "class"
    /\ ~HasFromString(HookType(ReadType)[2])
    /\ HookType(ReadType)[2] \notin ExtendedClasses
    /\ ~(HasNullMember(ReadType) /\ StrLower(ReadText) = <<"n","o","n","e">>)

C25_ReadsChangeNothing ==
    [][/\ result'.op = "getattr" => (cfg' = cfg /\ cli' = cli /\ env' = env)
       /\ result'.op = "cli" => (cfg' = cfg /\ env' = env)]_vars

\* a read raised a conversion error while the override store and the environment held
\* entries
C25_Witness ==
    /\ result.op = "getattr"
    /\ IsRaise(result.out)
    /\ ExcOf(result.out) = "ValueError"
    /\ "Base" \in DOMAIN cli
    /\ DOMAIN cli["Base"].attrs # {}
    /\ DOMAIN env # {}

\* the settings of a class whose declared type is a union, and the flag of a setting
UnionSettings(c) ==
    {n \in SettingNames(c) : HasDeclaredType(c, n) /\ SettingType(SchemaConfig(c, n), n)[1] = "Union"}
FlagOf(n) == DashDash \o ConvertToArgumentName(n)

\* the command line that was resolved is the flag of the setting and one token for it
OneValueGiven(n) == Len(result.given) = 2 /\ result.given[1] = FlagOf(n)

C27_StoreOnlyGrows ==
    [][result'.op = "cli" =>
          \A n \in DOMAIN CliOf(result'.cls).attrs :
              /\ n \in DOMAIN cli'[result'.cls].attrs
              /\ ~FlagGiven(result'.given, n) =>
                    cli'[result'.cls].attrs[n] = CliOf(result'.cls).attrs[n]]_vars

\* what a name a class's own registry holds resolves to on the class, given the
\* registries and the environment: the coerced text of its variable, else the default
ResolvedWith(configs, environ, c, n) ==
    IF EnvName(n) \in DOMAIN environ
    THEN IF n \in DOMAIN configs[c].ann
         THEN ConvertValueToType(VStr(environ[EnvName(n)]), configs[c].ann[n])
         ELSE Ok(VStr(environ[EnvName(n)]))
    ELSE Ok(configs[c].attrs[n])

\* C28: assigning a new default to a setting on a class at runtime writes only that
\* class's own registry. What the name resolves to on every other class whose registry
\* holds it (the bases, and the subclasses, which hold the copy made at their
\* definition) is the same after the assignment as before, and of the class itself
\* only the default of that one name is written.
C28_SetAttrOwnRegistryOnly ==
    /\ []((result.op = "getattr" /\ result.name \in DOMAIN cfg[result.cls].attrs) =>
             result.out = ResolvedWith(cfg, env, result.cls, result.name))
    /\ [][result'.op = "setattr" =>
              /\ \A k \in (DOMAIN cfg) \ {result'.cls} :
                    /\ cfg'[k] = cfg[k]
                    /\ result'.name \in DOMAIN cfg[k].attrs =>
                          ResolvedWith(cfg', env', k, result'.name) = ResolvedWith(cfg, env, k, result'.name)
              /\ cfg'[result'.cls].ann = cfg[result'.cls].ann
              /\ \A m \in (DOMAIN cfg[result'.cls].attrs) \ {result'.name} :
                    cfg'[result'.cls].attrs[m] = cfg[result'.cls].attrs[m]]_vars

\* Base.x = 3 was assigned after Child(Base) had been defined without an x of its own:
\* Base resolves x to 3, Child still to the 1 it copied
C28_Witness ==
    /\ result.op = "setattr"
    /\ result.cls = "Base"
    /\ "Child" \in DOMAIN cfg
    /\ ~EnvIsSet(N_x)
    /\ Resolve("Base", N_x) = Ok(VInt(3))
    /\ Resolve("Child", N_x) = Ok(VInt(1))

\* a read of a setting with a declared type whose variable is set to the empty text
ReadOfEmptyText ==
    /\ ReadOfSetting
    /\ HasDeclaredType(result.cls, result.name)
    /\ StrUpper(result.name) \in DOMAIN env
    /\ env[StrUpper(result.name)] = <<>>

\* C29: a variable set to the empty text counts as present. The read coerces the empty
\* text with the setting's type, which gives "" for str and a conversion error for int,
\* float, bool, list and dict; it never returns the default because the text is empty.
C29_EmptyTextIsPresent ==
    ReadOfEmptyText =>
        /\ ReadType = TStr => result.out = Ok(VStr(<<>>))
        /\ ReadType \in {TInt, TFloat, TBool, TList, TDict} =>
              IsRaise(result.out) /\ ExcIsA(ExcOf(result.out), "ValueError")
        /\ result.out # Ok(DefaultOf(result.cls, result.name))

\* host: str = "a" was read with HOST set to the empty text and gave ""
C29_Witness ==
    /\ ReadOfEmptyText
    /\ result.name = N_host
    /\ DefaultOf(result.cls, result.name) = VStr(<<"a">>)
    /\ result.out = Ok(VStr(<<>>))

\* a text was coerced to bool
CoercedToBool == CoercedText /\ result.given[2] = TBool

\* C30: the command surface's boolean parser and the coercion engine's boolean branch
\* are the same function: for every text, _bool_str_to_bool and the coercion to bool
\* return the same boolean, or both fail with a ValueError.
C30_BoolParsersAgree ==
    CoercedToBool =>
        IF IsOk(result.out)
        THEN BoolStrToBool(result.given[1][2]) = result.out
        ELSE /\ IsRaise(BoolStrToBool(result.given[1][2]))
             /\ ExcOf(BoolStrToBool(result.given[1][2])) = ExcOf(result.out)
             /\ ExcOf(result.out) = "ValueError"

\* "OFF" was coerced to bool and gave False, as _bool_str_to_bool does
C30_Witness ==
    /\ CoercedToBool
    /\ result.given[1] = VStr(<<"O","F","F">>)
    /\ result.out = Ok(VBool(FALSE))
    /\ BoolStrToBool(<<"O","F","F">>) = Ok(VBool(FALSE))

====
